---- MODULE Spec2Model ----
(***************************************************************************)
(* Dewey: the deferred command processing pipeline.                        *)
(*                                                                         *)
(* One user command is followed from the API Gateway event through the     *)
(* synchronous acknowledgment (handler / handleInteraction), the           *)
(* self-dispatched asynchronous continuation (processDeferred), title      *)
(* resolution, thread routing, the generation fan-out and join             *)
(* (generateBatchSynopses) and the ordered chunked delivery                *)
(* (sendFollowUp, sendBatchResults, sendToThread, sendBatchToThread,       *)
(* processPollCommand).                                                    *)
(*                                                                         *)
(* Texts are abstracted by what the pipeline does with them: an argument   *)
(* by whether it is present, blank, and how many items its split yields;   *)
(* an artifact by its title, its error marker and the number of chunks     *)
(* splitContent cuts it into.  Every await of an external call is a step   *)
(* whose outcome (success, non-success response, thrown error) is chosen   *)
(* nondeterministically.                                                   *)
(*                                                                         *)
(* The text functions (splitContent, simpleParseTitle, isValidSimpleParse, *)
(* parseTitles) are also followed on their own, character by character,    *)
(* on every text within the bounds (FunctionSpec).                         *)
(***************************************************************************)
EXTENDS Integers, Sequences, FiniteSets, TLC

\* ------------------------------------------------------------------ bounds
\* Largest number of titles an accepted input names in the model.
MaxN == 2
\* Largest number of chunks splitContent cuts one text into in the model.
MaxChunks == 2

\* Longest text handed to a text function in the model, in characters.
MaxText == 6
\* Largest maxLength handed to splitContent in the model.
MaxSplit == 4
\* Longest text handed to parseTitles in the model, in tokens.
MaxTokens == 4

\* ------------------------------------------------------- program constants
\* Maximum titles per batch (index.ts: titles.length > 10).
MaxBatch == 10
\* Minimum number of poll options (titles.length < 2).
MinPoll == 2
\* InteractionResponseType values.
Pong == 1
ChannelMessageWithSource == 4
DeferredChannelMessageWithSource == 5
\* Longest title the simple split may yield (title.length > 100).
MaxTitleLength == 100
\* Pacing delays in milliseconds.
ChunkDelay == 250
ArtifactDelay == 500

\* A title count above the batch limit.
TooMany == MaxBatch + 1

\* --------------------------------------------------------------- variables
VARIABLES
  cfg,           \* process environment: publicKey, functionName, botToken
  ix,            \* the interaction delivered by the chat platform
  hpc,           \* position of the synchronous handler run
  resp,          \* the InteractionResponse computed by handleInteraction
  http,          \* status code returned to the platform (0: none yet)
  dispatched,    \* number of deferred_processing events sent to Lambda
  cpc,           \* position of the continuation (processDeferred)
  titles,        \* the work item list
  threadId,      \* 0: none; 1: the created thread
  call,          \* per work item: state of its generation promise
  doneOrder,     \* indices of the settled calls of the batch in flight, in
                 \* completion order (the join forgets it)
  settledAtIssue,\* per work item: number of calls settled when it was issued
  results,       \* value of Promise.all (empty before the join)
  di,            \* index of the artifact being delivered
  dj,            \* index of the chunk being delivered
  fu,            \* the sendFollowUp call in progress
  posts,         \* every outbound post attempt and awaited delay, in order
  threadAttempts,\* number of thread-creation requests issued
  extractCalls,  \* number of provider.extractTitles calls
  genBatches,    \* number of generateBatchSynopses invocations
  caught,        \* number of exceptions caught at an orchestrator boundary
  longText,      \* titles: the status text listing the titles exceeds one
                 \* chunk; error: the message of the thrown error does
  fpc,           \* text functions: position of the call being followed
  farg,          \* text functions: the arguments of the call
  remaining,     \* splitContent: the local variable remaining
  chunks,        \* splitContent: the local variable chunks
  cuts,          \* splitContent: per loop iteration that cut, the remainder
                 \* it looked at and the splitIndex it chose
  fret,          \* text functions: what the call returned (or that it threw)
  providers,     \* provider manager: names of the providers it registered
  currentProvider \* provider manager: the process-wide current provider

vars == <<cfg, ix, hpc, resp, http, dispatched, cpc, titles, threadId, call,
          doneOrder, settledAtIssue, results, di, dj, fu, posts,
          threadAttempts, extractCalls, genBatches, caught, longText,
          fpc, farg, remaining, chunks, cuts, fret,
          providers, currentProvider>>

hvars == <<hpc, resp, http, dispatched>>
gvars == <<call, doneOrder, settledAtIssue, results, genBatches>>
dvars == <<di, dj>>
fvars == <<fpc, farg, remaining, chunks, cuts, fret>>
mvars == <<providers, currentProvider>>

\* ------------------------------------------------------------------ inputs
\* A text argument, by what the handlers look at.
\*   present: the option (or target message content) exists and is non-empty
\*   blank:   the text is whitespace only
\*   n:       number of items of the simple split when isValidSimpleParse
\*            accepts it (0 when it is rejected: the raw text then goes to
\*            the provider)
\*   valid:   isValidSimpleParse accepts the simple split
\*   commas:  number of non-empty trimmed items of split(','), the split the
\*            poll command makes
NoArg ==
  [present |-> FALSE, blank |-> FALSE, n |-> 0, valid |-> FALSE, commas |-> 0]
\* " ": neither comma nor line feed, the simple split is the one empty title.
BlankArg ==
  [present |-> TRUE, blank |-> TRUE, n |-> 1, valid |-> TRUE, commas |-> 0]
\* "\n ": the line split has no non-empty item, the simple split is [].
BlankLinesArg ==
  [present |-> TRUE, blank |-> TRUE, n |-> 0, valid |-> FALSE, commas |-> 0]
\* A rejected simple split hands the raw text to the provider, whatever the
\* number of items it had: "we should read Dune" ...
ProseArg ==
  [present |-> TRUE, blank |-> FALSE, n |-> 0, valid |-> FALSE, commas |-> 1]
\* ... and "we should read Dune, 1984".
ProseListArg ==
  [present |-> TRUE, blank |-> FALSE, n |-> 0, valid |-> FALSE, commas |-> 2]
\* Comma-separated lists of k plain titles.
ListArgs ==
  { [present |-> TRUE, blank |-> FALSE, n |-> k, valid |-> TRUE, commas |-> k] :
      k \in (1..MaxN) \cup {TooMany} }
\* "Dune\n1984": two items for the simple split, one for the comma split.
LineListArg ==
  [present |-> TRUE, blank |-> FALSE, n |-> 2, valid |-> TRUE, commas |-> 1]
TextArgs == ListArgs \cup {ProseArg}
OneTitle ==
  [present |-> TRUE, blank |-> FALSE, n |-> 1, valid |-> TRUE, commas |-> 1]
TwoTitles ==
  [present |-> TRUE, blank |-> FALSE, n |-> 2, valid |-> TRUE, commas |-> 2]
\* Two comma-separated titles of 1,200 characters each: the simple split is
\* rejected (an item longer than 100 characters).
TwoLongTitles ==
  [present |-> TRUE, blank |-> FALSE, n |-> 0, valid |-> FALSE, commas |-> 2,
   long |-> TRUE]
\* The comma items of the text are so long that a text listing them exceeds
\* one chunk.
LongItems(a) == IF "long" \in DOMAIN a THEN a.long ELSE FALSE
\* Target messages that carry a poll: answers is the number of poll answers
\* with a non-empty text, joined the text answers.join(', ') as the title
\* functions see it.  One has no text content and the answer "Dune"; one
\* has a text content and an answer with a comma in it ("The Lion, the
\* Witch"); one has a text content and the answer "Dune or Emma".
PollOnlyMessage ==
  [present |-> FALSE, blank |-> FALSE, n |-> 0, valid |-> FALSE, commas |-> 0,
   answers |-> 1, joined |-> OneTitle]
PollAndTextMessage ==
  [present |-> TRUE, blank |-> FALSE, n |-> 1, valid |-> TRUE, commas |-> 1,
   answers |-> 1, joined |-> TwoTitles]
PollProseMessage ==
  [present |-> TRUE, blank |-> FALSE, n |-> 1, valid |-> TRUE, commas |-> 1,
   answers |-> 1, joined |-> ProseArg]
\* The options of the provider command: a subcommand and, for set, the
\* name option ("none": the option is missing).
ProviderArgs ==
       { [present |-> TRUE, blank |-> FALSE, n |-> 0, valid |-> FALSE,
          commas |-> 0, sub |-> "status", name |-> "none"] }
  \cup { [present |-> TRUE, blank |-> FALSE, n |-> 0, valid |-> FALSE,
          commas |-> 0, sub |-> "set", name |-> v] :
           v \in {"gemini", "claude", "none"} }

SingleCommands == {"synopsis", "discussion", "content-warnings", "recommend"}
ImmediateCommands == {"help", "ping", "provider", "bogus"}

\* channel: the interaction carries a channel (channel.id or channel_id).
Interaction(itype, ctype, name, arg, useThread) ==
  [itype |-> itype, ctype |-> ctype, name |-> name, arg |-> arg,
   useThread |-> useThread, channel |-> TRUE]
WithoutChannel(i) == [i EXCEPT !.channel = FALSE]

Interactions ==
       { Interaction("Ping", "ChatInput", "none", NoArg, FALSE) }
  \cup { Interaction("Other", "ChatInput", "none", NoArg, FALSE) }
  \cup { Interaction("ApplicationCommand", "ChatInput", c, NoArg, FALSE) :
           c \in ImmediateCommands }
  \cup { Interaction("ApplicationCommand", "ChatInput", "provider", a, FALSE) :
           a \in ProviderArgs }
  \cup { Interaction("ApplicationCommand", "ChatInput", c, a, FALSE) :
           c \in SingleCommands, a \in {NoArg, OneTitle} }
  \cup { Interaction("ApplicationCommand", "ChatInput", "synopsis-batch", a, t) :
           a \in {NoArg, BlankArg, BlankLinesArg} \cup TextArgs, t \in BOOLEAN }
  \cup { Interaction("ApplicationCommand", "ChatInput", "poll", a, FALSE) :
           a \in {NoArg, BlankArg, BlankLinesArg, LineListArg, ProseListArg,
                   TwoLongTitles} \cup TextArgs }
  \cup { WithoutChannel(
             Interaction("ApplicationCommand", "ChatInput", "poll", TwoTitles,
                         FALSE)) }
  \cup { Interaction("ApplicationCommand", "Message", "Generate Synopses", a, FALSE) :
           a \in {NoArg, BlankArg, BlankLinesArg} \cup TextArgs }
  \cup { Interaction("ApplicationCommand", "Message", "Generate Synopses", a, FALSE) :
           a \in {PollOnlyMessage, PollAndTextMessage, PollProseMessage} }
  \cup { Interaction("ApplicationCommand", "Message", "Other", OneTitle, FALSE) }

\* Environment and request authentication.
Configs ==
  [publicKey : BOOLEAN, functionName : BOOLEAN, botToken : BOOLEAN,
   signature : {"missing", "notimestamp", "invalid", "valid"}]

\* The commands whose run reads DISCORD_BOT_SECRET_TOKEN: those that request
\* a thread or create a poll.  The others are followed with the token set.
UsesBotToken(i) == i.ctype = "Message" \/ i.useThread \/ i.name = "poll"
ConfigsFor(i) == {c \in Configs : c.botToken \/ UsesBotToken(i)}

\* The k-th title named by the input.
TitlesOf(n) == [i \in 1..n |-> i]

\* ------------------------------------------------------- provider manager
\* The process-wide LLMProviderManager: the constructor registers a provider
\* for every API key in the environment and takes the default name as the
\* current provider without looking it up.
ProviderNames == {"gemini", "claude"}
ManagerStates ==
  [providers : SUBSET ProviderNames, currentProvider : ProviderNames]

\* The managers the pipeline is followed with: one whose current provider
\* is registered, one whose current provider is not.
PipelineManagers ==
  { [providers |-> ProviderNames, currentProvider |-> "gemini"],
    [providers |-> {"claude"}, currentProvider |-> "gemini"] }

ManagerIn(S) ==
  \E m \in S :
    /\ providers = m.providers
    /\ currentProvider = m.currentProvider
ManagerConstructed == ManagerIn(PipelineManagers)

\* getProvider(name): the provider registered under name, or a throw.
Registered(name) == name \in providers

\* setCurrentProvider(name): throws for a name that is not registered, and
\* the current provider stays.
CurrentProviderAfterSetUnchecked(name) == name
CurrentProviderAfterSet(name) ==
  IF Registered(name) THEN name ELSE currentProvider

\* ------------------------------------------------- synchronous phase
\* getMessageCommandContent: the non-empty poll answers joined by ", " if
\* the target message has any, else its text content, else null (NoArg).
\* The title functions take the joined text apart again: at every comma,
\* those inside an answer included.
PollAnswers(i) == IF "answers" \in DOMAIN i.arg THEN i.arg.answers ELSE 0
getMessageCommandContent(i) ==
  IF PollAnswers(i) > 0
  THEN i.arg.joined
  ELSE IF i.arg.present
  THEN [present |-> TRUE, blank |-> i.arg.blank, n |-> i.arg.n,
        valid |-> i.arg.valid, commas |-> i.arg.commas]
  ELSE NoArg

\* The text handed to parseTitles.
TitlesText(i) == IF i.ctype = "Message" THEN getMessageCommandContent(i) ELSE i.arg

errorResponse ==
  [type |-> ChannelMessageWithSource, eph |-> TRUE, error |-> TRUE]
\* A message with flags: 64 that is not an error (no '❌' content).
ephemeralResponse ==
  [type |-> ChannelMessageWithSource, eph |-> TRUE, error |-> FALSE]
immediateResponse ==
  [type |-> ChannelMessageWithSource, eph |-> FALSE, error |-> FALSE]
deferredResponse ==
  [type |-> DeferredChannelMessageWithSource, eph |-> FALSE, error |-> FALSE]
NoResponse == [type |-> 0, eph |-> FALSE, error |-> FALSE]

handleMessageCommand(i) ==
  IF i.name = "Generate Synopses"
  THEN IF ~i.arg.present THEN errorResponse ELSE deferredResponse
  ELSE errorResponse

handleTitleCommandImmediate(i) == immediateResponse
handleTitleCommand(i) ==
  IF ~i.arg.present THEN errorResponse ELSE deferredResponse

handleSynopsisBatchCommand(i) ==
  IF ~i.arg.present THEN errorResponse
  ELSE IF i.arg.blank THEN errorResponse
  ELSE deferredResponse

handlePollCommand(i) ==
  IF ~i.arg.present THEN errorResponse
  ELSE IF i.arg.blank THEN errorResponse
  ELSE IF i.arg.commas < MinPoll THEN errorResponse
  ELSE IF i.arg.commas > MaxBatch THEN errorResponse
  ELSE [type |-> DeferredChannelMessageWithSource, eph |-> TRUE,
                  error |-> FALSE]

\* Status and set both answer at once with an ephemeral message; a missing
\* subcommand or name, or a name that is not registered, with an error.
handleProviderCommand(i) ==
  IF ~i.arg.present THEN errorResponse
  ELSE IF i.arg.sub = "status" THEN ephemeralResponse
  ELSE IF i.arg.name = "none" THEN errorResponse
  ELSE IF Registered(i.arg.name) THEN ephemeralResponse
  ELSE errorResponse

\* The current provider once handleInteraction has returned.
CurrentProviderAfter(i) ==
  IF /\ i.itype = "ApplicationCommand"
     /\ i.ctype = "ChatInput"
     /\ i.name = "provider"
     /\ i.arg.present
  THEN IF i.arg.sub = "set" /\ i.arg.name # "none"
       THEN CurrentProviderAfterSet(i.arg.name)
       ELSE currentProvider
  ELSE currentProvider

handleInteraction(i) ==
  IF i.itype = "Ping" THEN [type |-> Pong, eph |-> FALSE, error |-> FALSE]
  ELSE IF i.itype = "ApplicationCommand" THEN
    IF i.ctype = "Message" THEN handleMessageCommand(i)
    ELSE CASE i.name = "help" -> immediateResponse
           [] i.name = "ping" -> immediateResponse
           [] i.name \in SingleCommands -> handleTitleCommand(i)
           [] i.name = "synopsis-batch" -> handleSynopsisBatchCommand(i)
           [] i.name = "poll" -> handlePollCommand(i)
           [] i.name = "provider" -> handleProviderCommand(i)
           \* default: 'Unknown command: ...' with flags 64, no error mark.
           [] OTHER -> ephemeralResponse
  \* 'Unknown interaction type' with flags 64, no error mark.
  ELSE ephemeralResponse

\* handler, up to the decision to dispatch: signature verification, then
\* handleInteraction.
\* if (!signature || !timestamp) return 401; then verifyKey must accept.
VerifiedIfPresent == cfg.signature \notin {"missing", "notimestamp"}
Verified == cfg.signature = "valid"

handler ==
  /\ hpc = "received"
  /\ IF ~cfg.publicKey
     THEN /\ http' = 500 /\ hpc' = "returned" /\ resp' = resp
          /\ currentProvider' = currentProvider
     ELSE IF ~Verified
     THEN /\ http' = 401 /\ hpc' = "returned" /\ resp' = resp
          /\ currentProvider' = currentProvider
     ELSE LET r == handleInteraction(ix) IN
          /\ resp' = r
          /\ http' = http
          /\ hpc' = IF r.type = DeferredChannelMessageWithSource /\ cfg.functionName
                    THEN "dispatch" ELSE "respond"
          /\ currentProvider' = CurrentProviderAfter(ix)
  /\ UNCHANGED <<fvars, providers, cfg, ix, longText, dispatched, cpc, titles, threadId, gvars, dvars, fu,
                 posts, threadAttempts, extractCalls, caught>>

\* await lambdaClient.send(new InvokeCommand({InvocationType: 'Event'})):
\* the event is queued for an asynchronous run, or the call throws and the
\* handler's catch returns 500.
\* Where the handler goes once the event is queued: it returns the response.
AfterDispatchAgain == IF dispatched = 0 THEN "dispatch" ELSE "respond"
AfterDispatch == "respond"

handlerDispatch ==
  /\ hpc = "dispatch"
  /\ \/ /\ dispatched' = dispatched + 1
        /\ hpc' = AfterDispatch
        /\ http' = http
     \/ /\ dispatched' = dispatched
        /\ hpc' = "returned"
        /\ http' = 500
  /\ UNCHANGED <<fvars, mvars, cfg, ix, longText, resp, cpc, titles, threadId, gvars, dvars, fu,
                 posts, threadAttempts, extractCalls, caught>>

\* return { statusCode: 200, body: JSON.stringify(response) }
handlerReturn ==
  /\ hpc = "respond"
  /\ http' = 200
  /\ hpc' = "returned"
  /\ UNCHANGED <<fvars, mvars, cfg, ix, longText, resp, dispatched, cpc, titles, threadId, gvars, dvars,
                 fu, posts, threadAttempts, extractCalls, caught>>

\* ------------------------------------------------------- outbound posts
\* One entry of the outbound log: a post attempt and its outcome, or a delay.
Post(target, kind, item, chunk, title, error, eph, outcome) ==
  [target |-> target, kind |-> kind, item |-> item, chunk |-> chunk,
   title |-> title, error |-> error, eph |-> eph, outcome |-> outcome]

\* await new Promise(resolve => setTimeout(resolve, ms))
DelayZero(ms) == Post("none", "delay", 0, 0, 0, FALSE, FALSE, "ok")
Delay(ms) == Post("none", "delay", ms, 0, 0, FALSE, FALSE, "ok")

\* What a fetch can do: ok response, non-ok response, rejected promise.
Outcomes == {"ok", "fail", "throw"}

\* Which of the texts the run builds exceed one chunk of 1900 characters.
\* The notice and the thread intro list the titles: up to ten titles of up
\* to 100 characters from an accepted simple split fit one chunk, titles
\* returned by the extraction or cut from the books option of the poll
\* command have any length.  The catch-all message carries error.message: a
\* provider error has any length, a rejected fetch carries the runtime's
\* short 'fetch failed'.
ShortTexts == [titles |-> FALSE, error |-> FALSE]

\* const chunks = splitContent(content): whether chunk j of a text of this
\* kind can be followed by another chunk (j < chunks.length - 1).  Provider
\* output has any length; the other status texts are fixed strings.
MoreChunks(kind, j) ==
  /\ j < MaxChunks
  /\ \/ kind \in {"content", "artifact"}
     \/ kind = "error" /\ longText.error
     \/ kind \in {"notice", "intro"} /\ longText.titles

\* A text that exceeds one chunk has a second chunk.
SecondChunk(kind, j) ==
  /\ j = 1
  /\ \/ kind = "error" /\ longText.error
     \/ kind \in {"notice", "intro"} /\ longText.titles

NoFollowUp == [kind |-> "none", eph |-> FALSE, j |-> 0, ret |-> "none"]

\* The call sendFollowUp(interaction, content, ephemeral); ret is where the
\* caller resumes.
FollowUp(kind, eph, ret) ==
  [kind |-> kind, eph |-> eph, j |-> 1, ret |-> ret]

\* The try block the continuation is in decides where a thrown error lands.
CatchTargetNone == "crashed"
CatchTarget == IF ix.name = "poll" THEN "poll_catch" ELSE "catch"

\* sendFollowUp: one iteration of its chunk loop.  A non-ok response breaks
\* the loop; a thrown error is swallowed by its own try/catch.
sendFollowUp ==
  /\ cpc = "followup"
  /\ \E o \in Outcomes : \E more \in BOOLEAN :
       /\ more => (o = "ok" /\ MoreChunks(fu.kind, fu.j))
       /\ (o = "ok" /\ SecondChunk(fu.kind, fu.j)) => more
       /\ posts' = posts
                   \o <<Post("webhook", fu.kind, 0, fu.j, 0, fu.kind = "error",
                             fu.eph, o)>>
                   \o (IF more THEN <<Delay(ChunkDelay)>> ELSE <<>>)
       /\ fu' = IF more THEN [fu EXCEPT !.j = @ + 1] ELSE NoFollowUp
       /\ cpc' = IF more THEN cpc ELSE fu.ret
  /\ UNCHANGED <<fvars, mvars, cfg, ix, longText, hvars, titles, threadId, gvars, dvars,
                 threadAttempts, extractCalls, caught>>

\* ------------------------------------------------------- continuation
\* handler's deferred_processing branch: processDeferred begins, up to its
\* first await.
processDeferred ==
  /\ cpc = "idle"
  /\ dispatched > 0
  /\ IF ix.ctype = "Message"
     THEN IF ix.name = "Generate Synopses" /\ getMessageCommandContent(ix).present
          THEN /\ cpc' = "parse" /\ fu' = fu
          ELSE /\ cpc' = "followup"
               /\ fu' = FollowUp("diag", FALSE, "done")
     ELSE CASE ix.name = "synopsis-batch" -> /\ cpc' = "parse" /\ fu' = fu
            [] ix.name \in SingleCommands -> /\ cpc' = "single" /\ fu' = fu
            [] ix.name = "poll" -> /\ cpc' = "poll" /\ fu' = fu
            [] OTHER -> /\ cpc' = "followup"
                        /\ fu' = FollowUp("content", FALSE, "done")
  /\ UNCHANGED <<fvars, mvars, cfg, ix, longText, hvars, titles, threadId, gvars, dvars, posts,
                 threadAttempts, extractCalls, caught>>

\* What the extraction fallback of parseTitles can meet: no provider under
\* the current name (getProvider throws), an API error, a reply without a
\* JSON array (extractTitles returns []), a reply whose bracketed text
\* JSON.parse rejects, a reply holding a list.
ProviderBehaviours == {"unavailable", "throw", "nojson", "badjson", "extracted"}
ExtractionCalled(b) == b \in {"throw", "nojson", "badjson", "extracted"}
ExtractionThrows(b) == b \in {"unavailable", "throw", "badjson"}
\* The behaviours the fallback can meet under the manager as it is.
ExtractionBehaviours ==
  IF Registered(currentProvider) THEN ProviderBehaviours \ {"unavailable"}
  ELSE {"unavailable"}

\* The lists provider.extractTitles can return: their length, and whether
\* the titles are so long that the text listing them exceeds one chunk (a
\* reply of two titles of 1,200 characters each).
ExtractLens == (0..MaxN) \cup {TooMany}
ExtractedReplies ==
       { [n |-> k, long |-> FALSE] : k \in ExtractLens }
  \cup { [n |-> 2, long |-> TRUE] }
NoReply == [n |-> 0, long |-> FALSE]

\* Where processDeferred goes once the title list is known.
AfterTitlesNoLimit(ts) ==
  IF Len(ts) = 0 THEN "diag"
  ELSE IF ix.ctype = "Message" \/ ix.useThread THEN "route"
  ELSE "notice"
AfterTitles(ts) ==
  IF Len(ts) = 0 THEN "diag"
  ELSE IF Len(ts) > MaxBatch THEN "diag"
  ELSE IF ix.ctype = "Message" \/ ix.useThread THEN "route"
  ELSE "notice"

\* const titles = await parseTitles(text), and the two length checks.
\* An accepted simple split is returned as is; otherwise the provider's
\* extractTitles is awaited, which returns a list or throws; getProvider
\* throws before any call when the current provider is not configured.
parseTitles ==
  /\ cpc = "parse"
  /\ \E r \in IF TitlesText(ix).valid THEN {"simple"} ELSE ExtractionBehaviours :
     \E reply \in IF r = "simple"
                   THEN {[n |-> TitlesText(ix).n, long |-> FALSE]}
                   ELSE IF r = "extracted" THEN ExtractedReplies ELSE {NoReply} :
     \E longError \in IF r = "throw" THEN BOOLEAN ELSE {FALSE} :
       /\ extractCalls' = IF ExtractionCalled(r)
                          THEN extractCalls + 1 ELSE extractCalls
       /\ IF ExtractionThrows(r)
          THEN /\ cpc' = CatchTarget
               /\ longText' = [longText EXCEPT !.error = longError]
               /\ UNCHANGED <<titles, fu>>
          ELSE /\ titles' = TitlesOf(reply.n)
               /\ longText' = [longText EXCEPT !.titles = reply.long]
               /\ LET nxt == AfterTitles(TitlesOf(reply.n)) IN
                  /\ cpc' = IF nxt \in {"diag", "notice"} THEN "followup" ELSE nxt
                  /\ fu' = IF nxt = "diag" THEN FollowUp("diag", FALSE, "done")
                           ELSE IF nxt = "notice"
                           THEN FollowUp("notice", FALSE, "generate")
                           ELSE fu
  /\ UNCHANGED <<fvars, mvars, cfg, ix, hvars, threadId, gvars, dvars, posts,
                 threadAttempts, caught>>

\* createThreadFromMessage / createStandaloneThread: null without a request
\* when the bot token is unset; otherwise one request whose non-ok response
\* or thrown error also yields null.  A null thread id falls back to the
\* channel with an inline notice.
\* Where the caller goes when no thread id came back: straight to the
\* inline notice, the request is not repeated.
AfterThreadFailureRetry == IF threadAttempts = 0 THEN "route" ELSE "followup"
AfterThreadFailure == "followup"

createThread ==
  /\ cpc = "route"
  /\ \E o \in IF cfg.botToken THEN Outcomes ELSE {"notoken"} :
       /\ threadAttempts' = IF o = "notoken" THEN threadAttempts
                            ELSE threadAttempts + 1
       /\ IF o = "ok"
          THEN /\ threadId' = 1
               /\ cpc' = "thread_intro"
               /\ fu' = fu
          ELSE /\ threadId' = threadId
               /\ cpc' = AfterThreadFailure
               /\ fu' = FollowUp("notice", FALSE, "generate")
  /\ UNCHANGED <<fvars, mvars, cfg, ix, longText, hvars, titles, gvars, dvars, posts, extractCalls,
                 caught>>

createThreadFromMessage ==
  /\ ix.ctype = "Message"
  /\ createThread

createStandaloneThread ==
  /\ ix.ctype = "ChatInput"
  /\ createThread

\* await sendToThread(threadId, "Processing synopses for: ..."): the list
\* of titles posted to the new thread before generation, one iteration of
\* its chunk loop (dj counts the chunks sent).  A non-ok response breaks the
\* loop; the fetch is not guarded: a thrown error propagates to the caller.
sendToThread ==
  /\ cpc = "thread_intro"
  /\ \E o \in Outcomes : \E more \in BOOLEAN :
       /\ more => (o = "ok" /\ MoreChunks("intro", dj + 1))
       /\ (o = "ok" /\ SecondChunk("intro", dj + 1)) => more
       /\ posts' = posts
                   \o <<Post("thread", "intro", 0, dj + 1, 0, FALSE, FALSE, o)>>
                   \o (IF more THEN <<Delay(ChunkDelay)>> ELSE <<>>)
       /\ dj' = IF more THEN dj + 1 ELSE 0
       /\ cpc' = IF o = "throw" THEN CatchTarget
                 ELSE IF more THEN cpc ELSE "generate"
  /\ UNCHANGED <<fvars, mvars, cfg, ix, longText, hvars, titles, threadId, gvars, di, fu,
                 threadAttempts, extractCalls, caught>>

\* ------------------------------------------------------- generation
\* The value of one settled promise of generateBatchSynopses.
OkResult(title) == [title |-> title, error |-> FALSE, marker |-> FALSE]
ErrorResult(title) == [title |-> title, error |-> TRUE, marker |-> TRUE]

\* titles.map(async (title) => ...): the callback for the next title runs up
\* to its await of providerManager.generateSynopsis(title).  The map is
\* synchronous: the calls are issued one after the other with no suspension
\* of the orchestrator in between.
\* providerManager.generateSynopsis(title) resolves this.getProvider() in
\* the synchronous part of the call, before its first await.
ProviderOfCallAtSettle == "unresolved"
ProviderOfCall == currentProvider

generateBatchSynopses ==
  /\ cpc = "generate"
  /\ LET k == Len(call) + 1 IN
     /\ call' = Append(call, [st |-> "running", title |-> titles[k],
                              provider |-> ProviderOfCall])
     /\ settledAtIssue' = Append(settledAtIssue, Len(doneOrder))
     /\ genBatches' = IF k = 1 THEN genBatches + 1 ELSE genBatches
     /\ cpc' = IF k = Len(titles) THEN "join" ELSE "generate"
  /\ UNCHANGED <<fvars, mvars, cfg, ix, longText, hvars, titles, threadId, doneOrder, results, dvars,
                 fu, posts, threadAttempts, extractCalls, caught>>

\* A promise continuation runs only while the orchestrator is suspended;
\* between the first call and the join its only await is Promise.all.
OrchestratorAwaitingInLoop == cpc \in {"generate", "join"}
OrchestratorAwaiting == cpc = "join"

\* The provider call of work item i returns or throws; the callback's
\* try/catch turns either into a result, so the promise always fulfils.
\* The provider a call runs on: the one resolved when it was issued.
ResolvedProvider(c) ==
  IF c.provider = "unresolved" THEN currentProvider ELSE c.provider

settleCall(i) ==
  /\ OrchestratorAwaiting
  /\ i \in 1..Len(call)
  /\ call[i].st = "running"
  /\ \E o \in IF Registered(ResolvedProvider(call[i]))
              THEN {"ok", "err"} ELSE {"err"} :
       call' = [call EXCEPT ![i].st = o,
                            ![i].provider = ResolvedProvider(call[i])]
  /\ doneOrder' = Append(doneOrder, i)
  /\ UNCHANGED <<fvars, mvars, cfg, ix, longText, hvars, cpc, titles, threadId, settledAtIssue,
                 results, genBatches, dvars, fu, posts, threadAttempts,
                 extractCalls, caught>>

ValueOf(c) == IF c.st = "err" THEN ErrorResult(c.title) ELSE OkResult(c.title)

\* Promise.all resumes once every promise has fulfilled.
JoinReadyAny == \E i \in 1..Len(call) : call[i].st \in {"ok", "err"}
JoinReady == \A i \in 1..Len(call) : call[i].st \in {"ok", "err"}

\* Promise.all(promises): the values in the order of the promises array.
BatchResultsByCompletion == [k \in 1..Len(doneOrder) |-> ValueOf(call[doneOrder[k]])]
BatchResults == [i \in 1..Len(call) |-> ValueOf(call[i])]

\* const results = await Promise.all(promises); return results.  The caller
\* then enters its delivery loop and splits the first artifact.
joinAll ==
  /\ cpc = "join"
  /\ JoinReady
  /\ results' = BatchResults
  /\ doneOrder' = <<>>
  /\ cpc' = "deliver"
  /\ di' = 1
  /\ dj' = 1
  /\ UNCHANGED <<fvars, mvars, cfg, ix, longText, hvars, titles, threadId, call, settledAtIssue,
                 genBatches, fu, posts, threadAttempts, extractCalls, caught>>

\* ------------------------------------------------------- delivery
\* The k-th artifact delivered is results[k].
DeliveryIndexReversed(k) == Len(results) + 1 - k
DeliveryIndex(k) == k

\* Where the orchestrator goes when the delivery loop has ended: the thread
\* flows of processDeferred send a final ephemeral acknowledgment.
\* After the artifact loop: the thread path of processDeferred sends an
\* ephemeral acknowledgment, the channel path and the poll flow return.
AfterDeliveryNoAck == "done"
AfterDelivery ==
  IF threadId = 1 /\ ix.name # "poll" THEN "ack" ELSE "done"

\* One iteration of the chunk loop of the artifact loop.  A non-ok response
\* breaks the chunk loop and the artifact loop goes on; a thrown error is
\* not caught here.  ArtifactDelay is awaited after every artifact but the
\* last, ChunkDelay after every chunk but the last.
deliverChunk(target) ==
  /\ cpc = "deliver"
  /\ \E o \in Outcomes : \E more \in BOOLEAN :
       LET r == results[DeliveryIndex(di)]
           p == Post(target, "artifact", DeliveryIndex(di), dj, r.title,
                     r.error, FALSE, o)
           last == di = Len(results)
       IN
       /\ more => (o = "ok" /\ MoreChunks("artifact", dj))
       /\ IF o = "throw"
          THEN /\ posts' = Append(posts, p)
               /\ cpc' = CatchTarget
               /\ UNCHANGED <<dvars, fu>>
          ELSE IF more
          THEN /\ posts' = posts \o <<p, Delay(ChunkDelay)>>
               /\ dj' = dj + 1
               /\ UNCHANGED <<cpc, di, fu>>
          ELSE IF ~last
          THEN /\ posts' = posts \o <<p, Delay(ArtifactDelay)>>
               /\ di' = di + 1
               /\ dj' = 1
               /\ UNCHANGED <<cpc, fu>>
          ELSE /\ posts' = Append(posts, p)
               /\ UNCHANGED dvars
               /\ IF AfterDelivery = "ack"
                  THEN /\ cpc' = "followup"
                       /\ fu' = FollowUp("ack", TRUE, "done")
                  ELSE /\ cpc' = "done"
                       /\ fu' = fu
  /\ UNCHANGED <<fvars, mvars, cfg, ix, longText, hvars, titles, threadId, gvars, threadAttempts,
                 extractCalls, caught>>

\* sendBatchResults: artifacts to the interaction webhook (original channel).
sendBatchResults ==
  /\ threadId = 0
  /\ deliverChunk("webhook")

\* sendBatchToThread: artifacts to the created thread, through sendToThread.
sendBatchToThreadViaWebhook ==
  /\ threadId = 1
  /\ deliverChunk("webhook")
sendBatchToThread ==
  /\ threadId = 1
  /\ deliverChunk("thread")

\* ------------------------------------------------------- single commands
\* content = await generateSynopsis / generateDiscussionQuestions /
\* generateContentWarnings / generateRecommendations: returns the text or
\* rethrows the provider's error; then sendFollowUp(content).
generateSingle ==
  /\ cpc = "single"
  /\ \E o \in IF Registered(currentProvider) THEN {"ok", "err"} ELSE {"err"} :
     \E longError \in IF o = "err" /\ Registered(currentProvider)
                       THEN BOOLEAN ELSE {FALSE} :
       IF o = "ok"
       THEN /\ cpc' = "followup"
            /\ fu' = FollowUp("content", FALSE, "done")
            /\ longText' = longText
       ELSE /\ cpc' = CatchTarget
            /\ fu' = fu
            /\ longText' = [longText EXCEPT !.error = longError]
  /\ UNCHANGED <<fvars, mvars, cfg, ix, hvars, titles, threadId, gvars, dvars, posts,
                 threadAttempts, extractCalls, caught>>

\* ------------------------------------------------------- failure boundary
\* catch (error) { await sendFollowUp(interaction, `Error: ${message}`) }
catchSilent ==
  /\ cpc \in {"catch", "poll_catch"}
  /\ caught' = caught + 1
  /\ cpc' = "done"
  /\ UNCHANGED <<fvars, mvars, cfg, ix, longText, hvars, titles, threadId, gvars, dvars, fu, posts,
                 threadAttempts, extractCalls>>

\* The catch-all message: the function returns once it is sent.
CatchAllMessageResuming ==
  FollowUp("error", FALSE, IF results # <<>> THEN "deliver" ELSE "done")
CatchAllMessage == FollowUp("error", FALSE, "done")

catchBoundary ==
  /\ cpc \in {"catch", "poll_catch"}
  /\ caught' = caught + 1
  /\ fu' = CatchAllMessage
  /\ cpc' = "followup"
  /\ UNCHANGED <<fvars, mvars, cfg, ix, longText, hvars, titles, threadId, gvars, dvars, posts,
                 threadAttempts, extractCalls>>

\* The catch of processDeferred.
processDeferredCatch ==
  /\ cpc = "catch"
  /\ catchBoundary

\* The catch of processPollCommand.
processPollCatch ==
  /\ cpc = "poll_catch"
  /\ catchBoundary

\* ------------------------------------------------------- poll flow
\* processPollCommand up to its try block: bot token, title count (the
\* comma split of the books option), channel.
processPollCommand ==
  /\ cpc = "poll"
  /\ IF ~cfg.botToken
     THEN /\ cpc' = "followup"
          /\ fu' = FollowUp("diag", FALSE, "done")
          /\ titles' = titles
          /\ longText' = longText
     ELSE /\ titles' = TitlesOf(ix.arg.commas)
          /\ longText' = [longText EXCEPT !.titles = LongItems(ix.arg)]
          /\ IF ix.arg.commas < MinPoll \/ ix.arg.commas > MaxBatch
             THEN /\ cpc' = "followup"
                  /\ fu' = FollowUp("diag", FALSE, "done")
             ELSE IF ~ix.channel
             THEN /\ cpc' = "followup"
                  /\ fu' = FollowUp("diag", FALSE, "done")
             ELSE /\ cpc' = "poll_create"
                  /\ fu' = fu
  /\ UNCHANGED <<fvars, mvars, cfg, ix, hvars, threadId, gvars, dvars, posts,
                 threadAttempts, extractCalls, caught>>

\* The poll message is posted to the channel.
createPoll ==
  /\ cpc = "poll_create"
  /\ \E o \in Outcomes :
       /\ posts' = Append(posts, Post("channel", "poll", 0, 1, 0, FALSE, FALSE, o))
       /\ cpc' = CASE o = "ok" -> "poll_thread"
                   [] o = "fail" -> "followup"
                   [] OTHER -> CatchTarget
       /\ fu' = IF o = "fail" THEN FollowUp("diag", FALSE, "done") ELSE fu
  /\ UNCHANGED <<fvars, mvars, cfg, ix, longText, hvars, titles, threadId, gvars, dvars,
                 threadAttempts, extractCalls, caught>>

\* The synopses thread is created from the poll message; an ephemeral
\* confirmation follows in either case.
\* if (!threadResponse.ok): an ephemeral note that the poll has no synopses
\* thread, then return.
PollThreadFailureFallback == FollowUp("notice", FALSE, "generate")
PollThreadFailure == FollowUp("nothread", TRUE, "done")

createPollThread ==
  /\ cpc = "poll_thread"
  /\ threadAttempts' = threadAttempts + 1
  /\ \E o \in Outcomes :
       /\ threadId' = IF o = "ok" THEN 1 ELSE threadId
       /\ cpc' = IF o = "throw" THEN CatchTarget ELSE "followup"
       /\ fu' = CASE o = "ok" -> FollowUp("confirm", TRUE, "thread_intro")
                  [] o = "fail" -> PollThreadFailure
                  [] OTHER -> fu
  /\ UNCHANGED <<fvars, mvars, cfg, ix, longText, hvars, titles, gvars, dvars, posts, extractCalls,
                 caught>>

\* ------------------------------------------------------- text functions
\* A text is a sequence of characters.  trim() removes leading and trailing
\* whitespace; the whitespace of the model is the space and the line feed.
Whitespace == {" ", "\n"}

Max(S) == CHOOSE x \in S : \A y \in S : y <= x
Min(S) == CHOOSE x \in S : \A y \in S : x <= y

\* String.prototype.trim
Trim(s) ==
  LET keep == {i \in 1..Len(s) : s[i] \notin Whitespace} IN
  IF keep = {} THEN <<>> ELSE SubSeq(s, Min(keep), Max(keep))

\* String.prototype.substring(from, to), indices counted from 0.
substring(s, from, to) == SubSeq(s, from + 1, to)

\* String.prototype.lastIndexOf(sep, fromIndex): the largest index, counted
\* from 0 and at most fromIndex, at which sep starts; -1 when there is none.
lastIndexOf(s, sep, fromIndex) ==
  LET last == IF fromIndex < Len(s) - Len(sep) THEN fromIndex
              ELSE Len(s) - Len(sep)
      at == {i \in 0..last : SubSeq(s, i + 1, i + Len(sep)) = sep}
  IN IF at = {} THEN -1 ELSE Max(at)

\* The texts of at most n characters over alphabet A.
Texts(A, n) == UNION {[1..k -> A] : k \in 0..n}

\* The calls of the text functions are followed on their own: no handler
\* run and no continuation is in progress.
NoCall ==
  /\ fpc = "off"
  /\ farg = <<>>
  /\ remaining = <<>>
  /\ chunks = <<>>
  /\ cuts = <<>>
  /\ fret = <<>>

\* ------------------------------------------------------- splitContent
SplitAlphabet == {"a", "b", " ", "\n"}
ParagraphBreak == <<"\n", "\n">>
LineBreak == <<"\n">>
Space == <<" ">>

\* if (splitIndex === -1 || splitIndex < maxLength / 2)
RejectedIfMissing(splitIndex, maxLength) == splitIndex = -1
Rejected(splitIndex, maxLength) == splitIndex = -1 \/ 2 * splitIndex < maxLength

\* splitIndex = maxLength; // Hard cut as last resort
HardCutBeyond(maxLength) == maxLength + 1
HardCut(maxLength) == maxLength

\* The split point of one iteration: paragraph, then newline, then space,
\* then the hard cut.
SplitIndexLineFirst(r, maxLength) ==
  LET p == lastIndexOf(r, ParagraphBreak, maxLength)
      l == lastIndexOf(r, LineBreak, maxLength)
      b == lastIndexOf(r, Space, maxLength)
  IN IF ~Rejected(l, maxLength) THEN l
     ELSE IF ~Rejected(p, maxLength) THEN p
     ELSE IF ~Rejected(b, maxLength) THEN b
     ELSE HardCut(maxLength)
SplitIndex(r, maxLength) ==
  LET p == lastIndexOf(r, ParagraphBreak, maxLength)
      l == lastIndexOf(r, LineBreak, maxLength)
      b == lastIndexOf(r, Space, maxLength)
  IN IF ~Rejected(p, maxLength) THEN p
     ELSE IF ~Rejected(l, maxLength) THEN l
     ELSE IF ~Rejected(b, maxLength) THEN b
     ELSE HardCut(maxLength)

\* remaining = remaining.substring(splitIndex).trim()
RestSkipping(r, splitIndex) == Trim(substring(r, splitIndex + 1, Len(r)))
Rest(r, splitIndex) == Trim(substring(r, splitIndex, Len(r)))

\* if (content.length <= maxLength) return [content]
WholeTrimmed(content) == <<Trim(content)>>
Whole(content) == <<content>>

\* splitContent up to its loop: a content that fits is returned as is.
splitContentCall ==
  /\ fpc = "splitContent"
  /\ IF Len(farg.content) <= farg.maxLength
     THEN /\ fret' = Whole(farg.content)
          /\ fpc' = "returned"
          /\ UNCHANGED <<remaining, chunks>>
     ELSE /\ chunks' = <<>>
          /\ remaining' = farg.content
          /\ fpc' = "loop"
          /\ fret' = fret
  /\ UNCHANGED <<farg, cuts>>
  /\ UNCHANGED <<mvars, cfg, ix, longText, hvars, cpc, titles, threadId, gvars, dvars, fu,
                 posts, threadAttempts, extractCalls, caught>>

\* One evaluation of while (remaining.length > 0) and of the loop body.
splitContentLoop ==
  /\ fpc = "loop"
  /\ IF Len(remaining) = 0
     THEN /\ fret' = chunks
          /\ fpc' = "returned"
          /\ UNCHANGED <<remaining, chunks, cuts>>
     ELSE IF Len(remaining) <= farg.maxLength
     THEN /\ chunks' = Append(chunks, remaining)
          /\ fret' = Append(chunks, remaining)
          /\ fpc' = "returned"
          /\ UNCHANGED <<remaining, cuts>>
     ELSE LET splitIndex == SplitIndex(remaining, farg.maxLength) IN
          /\ chunks' = Append(chunks, Trim(substring(remaining, 0, splitIndex)))
          /\ remaining' = Rest(remaining, splitIndex)
          /\ cuts' = Append(cuts, [rem |-> remaining, idx |-> splitIndex])
          /\ UNCHANGED <<fpc, fret>>
  /\ UNCHANGED farg
  /\ UNCHANGED <<mvars, cfg, ix, longText, hvars, cpc, titles, threadId, gvars, dvars, fu,
                 posts, threadAttempts, extractCalls, caught>>


\* ------------------------------------------------------- parseTitles
\* For the title functions a character of a text is one of a few tokens:
\* a token made of word characters stands for that run of word characters
\* (two adjacent ones form one longer word), the others are the single
\* character they name.  LongWord is a run of MaxTitleLength + 1 letters,
\* Ellipsis the character U+2026.
LongWord == "long"
Ellipsis == "ellipsis"
WordTokens == {"Dune", "1984", "or", "we", LongWord}
TitleAlphabet == WordTokens \cup {".", Ellipsis, ",", "\n", " "}

\* title.length
TokenLength(c) ==
  CASE c = "Dune" -> 4
    [] c = "1984" -> 4
    [] c = "or" -> 2
    [] c = "we" -> 2
    [] c = LongWord -> MaxTitleLength + 1
    [] OTHER -> 1
RECURSIVE TextLength(_)
TextLength(s) ==
  IF s = <<>> THEN 0 ELSE TokenLength(Head(s)) + TextLength(Tail(s))

Includes(s, c) == \E i \in 1..Len(s) : s[i] = c

\* String.prototype.split(c): the pieces between the occurrences of c.
RECURSIVE Split(_, _)
Split(s, c) ==
  IF ~Includes(s, c) THEN <<s>>
  ELSE LET i == Min({j \in 1..Len(s) : s[j] = c}) IN
       <<SubSeq(s, 1, i - 1)>> \o Split(SubSeq(s, i + 1, Len(s)), c)

\* .map(t => t.trim()).filter(t => t.length > 0)
TrimmedItems(pieces) ==
  SelectSeq([i \in 1..Len(pieces) |-> Trim(pieces[i])], LAMBDA t : Len(t) > 0)

\* return [input.trim()]
SingleItem(input) == <<Trim(input)>>

simpleParseTitleNewlineFirst(input) ==
  IF Includes(input, "\n") THEN TrimmedItems(Split(input, "\n"))
  ELSE IF Includes(input, ",") THEN TrimmedItems(Split(input, ","))
  ELSE SingleItem(input)
simpleParseTitle(input) ==
  IF Includes(input, ",") THEN TrimmedItems(Split(input, ","))
  ELSE IF Includes(input, "\n") THEN TrimmedItems(Split(input, "\n"))
  ELSE SingleItem(input)

\* /\b(w1|w2|...)\b/.test(title): one of the words stands alone in the title.
HasWord(title, words) ==
  \E i \in 1..Len(title) :
    /\ title[i] \in words
    /\ i = 1 \/ title[i - 1] \notin WordTokens
    /\ i = Len(title) \/ title[i + 1] \notin WordTokens

FillerWords == {"we", "you", "should", "talked", "about", "add", "any",
                "others", "thinking"}
\* /[...]$/: the class holds the characters U+201A, U+00C4, U+00B6 and the
\* full stop; U+2026 is not one of them.
EllipsisLike == {"U+201A", "U+00C4", "U+00B6", "."}

\* The checks isValidSimpleParse makes on one title.
LooksLikeTitle(title) ==
  /\ ~(TextLength(title) > MaxTitleLength)
  /\ ~HasWord(title, {"or"})
  /\ ~HasWord(title, FillerWords)
  /\ ~(Len(title) > 0 /\ title[Len(title)] \in EllipsisLike)

isValidSimpleParse(ts) ==
  Len(ts) # 0 /\ \A i \in 1..Len(ts) : LooksLikeTitle(ts[i])

\* The lists a provider reply holds in the model.
ExtractedLists == {<<>>, <<<<"Dune">>>>, <<<<"Dune">>, <<"1984">>>>}

\* parseTitles(input), followed on its own.
parseTitlesCall ==
  /\ fpc = "parseTitles"
  /\ LET simpleTitles == simpleParseTitle(farg.input) IN
     IF isValidSimpleParse(simpleTitles)
     THEN /\ fret' = [simple |-> simpleTitles, by |-> "simple", calls |-> 0,
                      titles |-> simpleTitles]
          /\ fpc' = "returned"
     ELSE \E b \in ExtractionBehaviours :
          \E list \in IF b = "extracted" THEN ExtractedLists ELSE {<<>>} :
            /\ fret' = [simple |-> simpleTitles, by |-> b,
                        calls |-> IF ExtractionCalled(b) THEN 1 ELSE 0,
                        titles |-> list]
            /\ fpc' = IF ExtractionThrows(b) THEN "threw" ELSE "returned"
  /\ UNCHANGED <<farg, remaining, chunks, cuts>>
  /\ UNCHANGED <<mvars, cfg, ix, longText, hvars, cpc, titles, threadId, gvars, dvars, fu,
                 posts, threadAttempts, extractCalls, caught>>

\* ------------------------------------------------------- specification
Init ==
  /\ ix \in Interactions
  /\ cfg \in ConfigsFor(ix)
  /\ hpc = "received"
  /\ resp = NoResponse
  /\ http = 0
  /\ dispatched = 0
  /\ cpc = "idle"
  /\ titles = <<>>
  /\ threadId = 0
  /\ call = <<>>
  /\ doneOrder = <<>>
  /\ settledAtIssue = <<>>
  /\ results = <<>>
  /\ di = 0
  /\ dj = 0
  /\ fu = NoFollowUp
  /\ posts = <<>>
  /\ threadAttempts = 0
  /\ extractCalls = 0
  /\ genBatches = 0
  /\ caught = 0
  /\ longText = ShortTexts
  /\ NoCall
  /\ IF ix.name = "provider" THEN ManagerIn(ManagerStates)
     ELSE ManagerConstructed

HandlerNext ==
  \/ handler
  \/ handlerDispatch
  \/ handlerReturn

ContinuationNext ==
  \/ processDeferred
  \/ parseTitles
  \/ createThreadFromMessage
  \/ createStandaloneThread
  \/ sendToThread
  \/ sendFollowUp
  \/ generateBatchSynopses
  \/ \E i \in 1..MaxN : settleCall(i)
  \/ joinAll
  \/ sendBatchResults
  \/ sendBatchToThread
  \/ generateSingle
  \/ processDeferredCatch
  \/ processPollCatch
  \/ processPollCommand
  \/ createPoll
  \/ createPollThread

Next == HandlerNext \/ ContinuationNext

Spec == Init /\ [][Next]_vars


\* The continuation on its own: the invocation started by a dispatched
\* deferred_processing event, after the handler returned the acknowledgment.
\* processDeferred reads the interaction and the environment only.  Of the
\* texts handed to the extraction one of each command is followed (ProseArg:
\* a blank text with a line feed and a poll answer the simple split rejects
\* take the same steps).
ContinuationInit ==
  /\ ManagerConstructed
  /\ ix \in {i \in Interactions :
              /\ handleInteraction(i).type = DeferredChannelMessageWithSource
              /\ i.arg \notin {BlankLinesArg, PollProseMessage}}
  /\ cfg \in {c \in ConfigsFor(ix) :
               c.publicKey /\ c.functionName /\ c.signature = "valid"}
  /\ hpc = "returned"
  /\ resp = handleInteraction(ix)
  /\ http = 200
  /\ dispatched = 1
  /\ cpc = "idle"
  /\ titles = <<>>
  /\ threadId = 0
  /\ call = <<>>
  /\ doneOrder = <<>>
  /\ settledAtIssue = <<>>
  /\ results = <<>>
  /\ di = 0
  /\ dj = 0
  /\ fu = NoFollowUp
  /\ posts = <<>>
  /\ threadAttempts = 0
  /\ extractCalls = 0
  /\ genBatches = 0
  /\ caught = 0
  /\ longText = ShortTexts
  /\ NoCall

\* Fairness: every external call eventually returns or throws, every delay
\* elapses, and the Lambda runtime keeps running a started invocation.
ContinuationSpec ==
  ContinuationInit /\ [][ContinuationNext]_vars /\ WF_vars(ContinuationNext)

\* ------------------------------------------------------- poll titles
\* booksString.split(',').map(t => t.trim()).filter(t => t.length > 0)
pollTitlesUnfiltered(booksString) == Split(booksString, ",")
pollTitles(booksString) == TrimmedItems(Split(booksString, ","))

\* handlePollCommand on a books option: missing option, blank text, fewer
\* than 2 or more than 10 titles are errors, otherwise the ephemeral deferral.
handlePollCommandOn(c) ==
  IF ~c.present THEN errorResponse
  ELSE LET booksString == Trim(c.books) IN
       IF Len(booksString) = 0 THEN errorResponse
       ELSE LET ts == pollTitles(booksString) IN
            IF Len(ts) < MinPoll THEN errorResponse
            ELSE IF Len(ts) > MaxBatch THEN errorResponse
            ELSE [type |-> DeferredChannelMessageWithSource, eph |-> TRUE,
                  error |-> FALSE]

\* processPollCommand on the same interaction, in the order of its code: the
\* bot token is read first and, when it is missing, one diagnostic is sent
\* and the function returns; then the books option is split and the bound
\* checked (a diagnostic and return when it fails); then the channel is
\* looked up (a diagnostic and return when there is none); then the poll is
\* requested.  steps lists, in order, the bound check and the outbound
\* calls up to the poll request.
processPollTitles(c) ==
  IF c.botToken THEN pollTitles(IF c.present THEN c.books ELSE <<>>) ELSE <<>>
processPollCommandOn(c) ==
  IF ~c.botToken
  THEN [next |-> "done", bound |-> "unchecked",
        steps |-> <<"followup: token">>]
  ELSE LET ts == processPollTitles(c) IN
       IF Len(ts) < MinPoll \/ Len(ts) > MaxBatch
       THEN [next |-> "done", bound |-> "fail",
             steps |-> <<"bound", "followup: titles">>]
       ELSE IF ~c.channel
       THEN [next |-> "done", bound |-> "pass",
             steps |-> <<"bound", "followup: channel">>]
       ELSE [next |-> "poll_create", bound |-> "pass",
             steps |-> <<"bound", "poll request">>]

\* The poll command on one interaction, both phases.
pollCommandCall ==
  /\ fpc = "poll"
  /\ fret' = [response |-> handlePollCommandOn(farg),
              next |-> processPollCommandOn(farg).next,
              bound |-> processPollCommandOn(farg).bound,
              steps |-> processPollCommandOn(farg).steps,
              titles |-> processPollTitles(farg)]
  /\ fpc' = "returned"
  /\ UNCHANGED <<farg, remaining, chunks, cuts>>
  /\ UNCHANGED <<mvars, cfg, ix, longText, hvars, cpc, titles, threadId, gvars, dvars, fu,
                 posts, threadAttempts, extractCalls, caught>>

\* The books options the poll command is followed on: every short text of
\* titles, commas and spaces, and lists of k equal items, padded or not,
\* for k around both limits.
PollAlphabet == {"Dune", ",", " "}
PollItems == {<<"Dune">>, <<" ", "Dune">>, <<"Dune", " ">>, <<" ">>, <<>>}
PollCounts == {1, MinPoll, MaxBatch, TooMany}
RECURSIVE Repeated(_, _)
Repeated(item, k) ==
  IF k = 1 THEN item ELSE item \o <<",">> \o Repeated(item, k - 1)
PollTexts ==
       Texts(PollAlphabet, MaxTokens)
  \cup { Repeated(item, k) : item \in PollItems, k \in PollCounts }
  \cup { <<" ">> \o Repeated(item, k) \o <<" ">> :
           item \in PollItems, k \in PollCounts }
\* A poll interaction: the books option, whether the function has a bot
\* token and whether the interaction names its channel.
PollCalls ==
       { [fn |-> "poll", present |-> TRUE, books |-> t, botToken |-> b,
          channel |-> ch] : t \in PollTexts, b \in BOOLEAN, ch \in BOOLEAN }
  \cup { [fn |-> "poll", present |-> FALSE, books |-> <<>>, botToken |-> b,
          channel |-> ch] : b \in BOOLEAN, ch \in BOOLEAN }

\* The text functions on their own: one call of splitContent, of
\* parseTitles or of the poll command on every text within the bounds.
SplitCallsFromZero ==
  { [fn |-> "splitContent", content |-> t, maxLength |-> m] :
      t \in Texts(SplitAlphabet, MaxText), m \in 0..MaxSplit }
SplitCalls ==
  { [fn |-> "splitContent", content |-> t, maxLength |-> m] :
      t \in Texts(SplitAlphabet, MaxText), m \in 1..MaxSplit }
ParseCalls ==
  { [fn |-> "parseTitles", input |-> t] : t \in Texts(TitleAlphabet, MaxTokens) }

FunctionInit ==
  /\ cfg = [publicKey |-> TRUE, functionName |-> TRUE, botToken |-> TRUE,
            signature |-> "valid"]
  /\ ix = Interaction("Ping", "ChatInput", "none", NoArg, FALSE)
  /\ hpc = "received"
  /\ resp = NoResponse
  /\ http = 0
  /\ dispatched = 0
  /\ cpc = "idle"
  /\ titles = <<>>
  /\ threadId = 0
  /\ call = <<>>
  /\ doneOrder = <<>>
  /\ settledAtIssue = <<>>
  /\ results = <<>>
  /\ di = 0
  /\ dj = 0
  /\ fu = NoFollowUp
  /\ posts = <<>>
  /\ threadAttempts = 0
  /\ extractCalls = 0
  /\ genBatches = 0
  /\ caught = 0
  /\ longText = ShortTexts
  /\ ManagerConstructed
  /\ \/ farg \in SplitCalls /\ Registered(currentProvider)
     \/ farg \in ParseCalls
     \/ farg \in PollCalls /\ Registered(currentProvider)
  /\ fpc = farg.fn
  /\ remaining = <<>>
  /\ chunks = <<>>
  /\ cuts = <<>>
  /\ fret = <<>>

FunctionNext ==
  \/ splitContentCall
  \/ splitContentLoop
  \/ parseTitlesCall
  \/ pollCommandCall

FunctionSpec == FunctionInit /\ [][FunctionNext]_vars

\* ------------------------------------------------------- provider switch
\* handleProviderCommand, subcommand set, served by the same process while a
\* continuation is in progress: providerManager.setCurrentProvider(name)
\* throws for a name that is not registered and the current provider stays.
\* Another handler runs only while the continuation is suspended at an await;
\* titles.map issues every call in one synchronous run.
setCurrentProvider ==
  /\ ~(cpc = "generate" /\ call # <<>>)
  /\ \E name \in ProviderNames :
       currentProvider' = CurrentProviderAfterSet(name)
  /\ UNCHANGED <<providers, fvars, cfg, ix, longText, hvars, cpc, titles, threadId,
                 gvars, dvars, fu, posts, threadAttempts, extractCalls, caught>>

\* A channel batch (synopsis-batch without the thread option, on a list the
\* simple split accepts) in a process whose manager is in any state its
\* constructor can leave it in, with provider set commands arriving at any
\* time.
ProviderInit ==
  /\ ManagerIn(ManagerStates)
  /\ cfg = [publicKey |-> TRUE, functionName |-> TRUE, botToken |-> TRUE,
            signature |-> "valid"]
  /\ ix \in { Interaction("ApplicationCommand", "ChatInput", "synopsis-batch",
                          a, FALSE) : a \in {a \in ListArgs : a.n <= MaxN} }
  /\ hpc = "returned"
  /\ resp = handleInteraction(ix)
  /\ http = 200
  /\ dispatched = 1
  /\ cpc = "idle"
  /\ titles = <<>>
  /\ threadId = 0
  /\ call = <<>>
  /\ doneOrder = <<>>
  /\ settledAtIssue = <<>>
  /\ results = <<>>
  /\ di = 0
  /\ dj = 0
  /\ fu = NoFollowUp
  /\ posts = <<>>
  /\ threadAttempts = 0
  /\ extractCalls = 0
  /\ genBatches = 0
  /\ caught = 0
  /\ longText = ShortTexts
  /\ NoCall

ProviderNext ==
  \/ setCurrentProvider
  \/ processDeferred
  \/ parseTitles
  \/ sendFollowUp
  \/ generateBatchSynopses
  \/ \E i \in 1..MaxN : settleCall(i)
  \/ joinAll
  \/ sendBatchResults
  \/ processDeferredCatch

ProviderSpec == ProviderInit /\ [][ProviderNext]_vars

\* ------------------------------------------------------- observations
ArtifactPosts == SelectSeq(posts, LAMBDA p : p.kind = "artifact")
FirstChunkPosts == SelectSeq(posts, LAMBDA p : p.kind = "artifact" /\ p.chunk = 1)
ErrorMessages == SelectSeq(posts, LAMBDA p : p.kind = "error" /\ p.chunk = 1)
NoticePosts == SelectSeq(posts, LAMBDA p : p.kind = "notice")
WebhookAttempts == Cardinality({k \in DOMAIN posts : posts[k].target = "webhook"})
AllCallsSettled ==
  /\ Len(call) = Len(titles)
  /\ \A i \in 1..Len(call) : call[i].st \in {"ok", "err"}
Returned == results # <<>>

\* ------------------------------------------------------- claims
\* C1: the sequence returned by generateBatchSynopses has the length of the
\* title list and result i carries title i and the failure of call i,
\* whichever calls failed and in whatever order the calls completed.
C1_ResultsMirrorTitles ==
  Returned =>
    /\ Len(results) = Len(titles)
    /\ \A i \in 1..Len(titles) :
         /\ results[i].title = titles[i]
         /\ results[i].error = (call[i].st = "err")

\* C1 witness: a batch of two returned, the first call failed, the second
\* succeeded.
C1_Witness ==
  /\ Returned
  /\ Len(titles) = 2
  /\ results[1].error
  /\ ~results[2].error

\* C2 (as claimed): when a batch was generated and the invocation is done,
\* the first chunk of every one of the N results was attempted, in title
\* order, the failing items and only they carry the error flag and marker,
\* and a sibling result is what it is when no call fails.
C2_AllDeliveredErrorsMarked ==
  (cpc = "done" /\ Returned) =>
    /\ Len(FirstChunkPosts) = Len(titles)
    /\ \A i \in 1..Len(FirstChunkPosts) :
         /\ FirstChunkPosts[i].item = i
         /\ FirstChunkPosts[i].title = titles[i]
         /\ FirstChunkPosts[i].error = (call[i].st = "err")
    /\ \A i \in 1..Len(results) :
         results[i] = IF call[i].st = "err" THEN ErrorResult(titles[i])
                      ELSE OkResult(titles[i])

\* C3: join barrier: whenever an artifact chunk has been posted, every
\* generation call of the batch has been issued and has settled.
C3_JoinBarrier ==
  (ArtifactPosts # <<>>) => AllCallsSettled

\* C3 witness: an artifact of a batch of two has been posted, one of whose
\* calls failed.
C3_Witness ==
  /\ ArtifactPosts # <<>>
  /\ Len(titles) = 2
  /\ call[2].st = "err"
  /\ call[1].st = "ok"

\* C4: fan-out: every call was issued when no call had settled, a call
\* settles only once all are issued, and the wait begins with all N issued.
C4_FanOut ==
  /\ \A i \in 1..Len(settledAtIssue) : settledAtIssue[i] = 0
  /\ (doneOrder # <<>>) => Len(call) = Len(titles)
  /\ (cpc = "join") => Len(call) = Len(titles)

\* C4 witness: the orchestrator waits on two calls and the second issued has
\* completed first.
C4_Witness ==
  /\ cpc = "join"
  /\ Len(call) = 2
  /\ doneOrder = <<2, 1>>

\* C5: sequential delivery: the artifact posts start with chunk 1 of
\* artifact 1; each later one is the next chunk of the same artifact, after
\* an ok post, or chunk 1 of the next artifact; every logged post is
\* settled; each post carries the title at its position in the title list.
C5_SequentialDelivery ==
  LET A == ArtifactPosts IN
  \A k \in 1..Len(A) :
    /\ A[k].outcome \in Outcomes
    /\ A[k].item \in 1..Len(titles)
    /\ A[k].title = titles[A[k].item]
    /\ (k = 1) => (A[k].item = 1 /\ A[k].chunk = 1)
    /\ (k > 1) =>
         \/ /\ A[k].item = A[k-1].item
            /\ A[k].chunk = A[k-1].chunk + 1
            /\ A[k-1].outcome = "ok"
         \/ /\ A[k].item = A[k-1].item + 1
            /\ A[k].chunk = 1
            /\ A[k-1].outcome # "throw"

\* C5 witness: two artifacts of two chunks each, every chunk posted.
C5_Witness ==
  /\ Len(ArtifactPosts) = 4
  /\ ArtifactPosts[4].item = 2
  /\ ArtifactPosts[4].chunk = 2
  /\ ArtifactPosts[4].outcome = "ok"

\* C6 (as claimed): the continuation runs, and posts, only after the handler
\* has returned the deferred acknowledgment.
C6_ContinuationAfterAck ==
  (cpc # "idle") => (hpc = "returned" /\ http = 200)

\* C7 (as claimed): a returned deferred acknowledgment has exactly one
\* continuation dispatched, and nothing else has one.
C7_DeferredAckDispatched ==
  /\ dispatched <= 1
  /\ (dispatched = 1) => resp.type = DeferredChannelMessageWithSource
  /\ (hpc = "returned" /\ http = 200
        /\ resp.type = DeferredChannelMessageWithSource) => dispatched = 1

\* C8: every started run of the continuation eventually reaches Done, not
\* having thrown, with at least one post to the interaction webhook
\* attempted.
C8_EventualFollowUp ==
  (cpc # "idle") ~> (cpc = "done" /\ WebhookAttempts >= 1)

\* C8 witness: a run is done after a delivery post threw and the error
\* follow-up itself threw.
C8_Witness ==
  /\ cpc = "done"
  /\ caught = 1
  /\ ArtifactPosts # <<>>
  /\ posts[Len(posts)].kind = "error"
  /\ posts[Len(posts)].outcome = "throw"

\* Entry k of the outbound log is followed by nothing but the chunk delay
\* and the next chunk of the same error message.
ErrorMessageGoesOn(k) ==
  (k < Len(posts)) =>
    /\ posts[k + 1] = Delay(ChunkDelay)
    /\ (k + 2 <= Len(posts)) =>
         /\ posts[k + 2].kind = "error"
         /\ posts[k + 2].chunk = posts[k].chunk + 1

\* C9: an exception is caught at most once per run; the error follow-up is
\* sent only from the catch, exactly once (in one or more chunks), no
\* artifact and no other message is posted after it, and the run ends in
\* Done.
C9_CaughtOnce ==
  /\ caught <= 1
  /\ cpc # "crashed"
  /\ Len(ErrorMessages) <= caught
  /\ \A k \in DOMAIN posts : posts[k].kind = "error" => ErrorMessageGoesOn(k)
  /\ (cpc = "done" /\ caught = 1) => Len(ErrorMessages) = 1
  /\ (posts # <<>> /\ posts[Len(posts)].kind = "error") => cpc = "done"

\* C9 witness: title extraction threw an error with a long message, the
\* error follow-up was sent in two chunks and the run is done.
C9_Witness ==
  /\ cpc = "done"
  /\ caught = 1
  /\ extractCalls = 1
  /\ titles = <<>>
  /\ Len(ErrorMessages) = 1
  /\ Len(posts) = 3
  /\ posts[3].kind = "error"
  /\ posts[3].chunk = 2

\* The thread was requested (message command, or synopsis-batch with the
\* thread option) for 1..10 titles and was not created.
ThreadFallback ==
  /\ ix.ctype = "Message" \/ ix.useThread
  /\ Len(titles) \in 1..MaxBatch
  /\ threadId = 0
  /\ threadAttempts = 1 \/ ~cfg.botToken

\* C10 (as claimed): after a failed thread creation the run ends with the
\* inline notice sent, the batch generated exactly once and every artifact
\* posted to the original channel in title order.
C10_FallbackDeliversAll ==
  (cpc = "done" /\ ThreadFallback) =>
    /\ Len(SelectSeq(NoticePosts, LAMBDA p : p.chunk = 1)) = 1
    /\ genBatches = 1
    /\ Len(FirstChunkPosts) = Len(titles)
    /\ \A i \in 1..Len(FirstChunkPosts) :
         /\ FirstChunkPosts[i].item = i
         /\ FirstChunkPosts[i].title = titles[i]
         /\ FirstChunkPosts[i].target = "webhook"

\* The batch flows of processDeferred, which resolve a title list from text.
BatchFlow ==
  /\ ix.name \in {"synopsis-batch", "Generate Synopses"}
  /\ ix.arg.present

\* C11: a generation call or a thread-creation request is only ever issued
\* with a title list of 1 to 10 entries; a batch flow whose resolution
\* returned no title or more than 10 ends having made exactly one post, a
\* diagnostic follow-up, with no generation call and no thread request.
C11_GenerationNeedsOneToTen ==
  /\ (call # <<>> \/ genBatches > 0 \/ threadAttempts > 0)
       => Len(titles) \in 1..MaxBatch
  /\ (cpc = "done" /\ caught = 0 /\ BatchFlow
        /\ (Len(titles) = 0 \/ Len(titles) > MaxBatch))
       => /\ Len(posts) = 1
          /\ posts[1].kind = "diag"
          /\ posts[1].target = "webhook"
          /\ call = <<>>
          /\ genBatches = 0
          /\ threadAttempts = 0

\* C11 witness: eleven titles were resolved for a batch with the thread
\* option and the run ended on the diagnostic.
C11_Witness ==
  /\ cpc = "done"
  /\ ix.name = "synopsis-batch"
  /\ ix.useThread
  /\ Len(titles) = TooMany
  /\ Len(posts) = 1
  /\ posts[1].kind = "diag"
  /\ threadAttempts = 0

\* A call of parseTitles that has ended, by a return or by a throw.
ParseEnded == farg.fn = "parseTitles" /\ fpc \in {"returned", "threw"}

\* C12 (as claimed): parseTitles never throws, and returns the empty list
\* whenever the provider fails, is missing, or replies with no JSON array or
\* with bracketed text that is not JSON.
C12_ParseTitlesNeverThrows ==
  ParseEnded =>
    /\ fpc = "returned"
    /\ (fret.by \in {"unavailable", "throw", "nojson", "badjson"})
         => fret.titles = <<>>

\* The separator the simple split uses on text t: the comma if t has one,
\* else the line feed if t has one, else none.
SeparatorOf(t) ==
  IF \E i \in 1..Len(t) : t[i] = "," THEN ","
  ELSE IF \E i \in 1..Len(t) : t[i] = "\n" THEN "\n"
  ELSE "none"

\* The pieces of t between the occurrences of sep, by their start: piece c
\* runs from position c + 1 to the next occurrence of sep (or the end).
PieceStarts(t, sep) == {0} \cup {i \in 1..Len(t) : t[i] = sep}
PieceAt(t, sep, c) ==
  LET ends == {j \in (c + 1)..(Len(t) + 1) : j = Len(t) + 1 \/ t[j] = sep}
  IN SubSeq(t, c + 1, Min(ends) - 1)
Blank(s) == \A i \in 1..Len(s) : s[i] \in Whitespace

\* C13: the simple split uses the comma if the text has one, else the line
\* feed if it has one; its result is then the non-blank pieces between the
\* separators, each trimmed, in input order (a piece keeps the line feeds
\* inside it when the comma is the separator).  A text with neither yields
\* its trimmed self as the single item.
C13_SimpleSplitFirstMatch ==
  ParseEnded =>
    LET t == farg.input
        r == fret.simple
        sep == SeparatorOf(t)
        kept == {c \in PieceStarts(t, sep) : ~Blank(PieceAt(t, sep, c))}
    IN IF sep = "none"
       THEN r = <<Trim(t)>>
       ELSE /\ Len(r) = Cardinality(kept)
            /\ \A c \in kept :
                 r[Cardinality({d \in kept : d <= c})] = Trim(PieceAt(t, sep, c))
            /\ \A k \in 1..Len(r) :
                 /\ r[k] # <<>>
                 /\ r[k][1] \notin Whitespace
                 /\ r[k][Len(r[k])] \notin Whitespace

\* C13 witness: "Dune,\n1984" is resolved to the two titles in input order,
\* with no provider call.
C13_Witness ==
  /\ ParseEnded
  /\ farg.input = <<"Dune", ",", "\n", "1984">>
  /\ fret.simple = << <<"Dune">>, <<"1984">> >>
  /\ fret.titles = fret.simple
  /\ fret.calls = 0

\* The ellipsis-like characters named by the comment of the ends-with
\* test ("Ends with ellipsis or similar"): the ellipsis and the full stop.
EllipsisOrSimilar == {Ellipsis, "."}

\* The conditions under which the simple split is to be rejected.
SplitRejected(items) ==
  \/ Len(items) = 0
  \/ \E k \in 1..Len(items) :
       \/ TextLength(items[k]) > MaxTitleLength
       \/ HasWord(items[k], {"or"})
       \/ HasWord(items[k], FillerWords)
       \/ items[k] # <<>> /\ items[k][Len(items[k])] \in EllipsisOrSimilar

\* C14 (as claimed): extraction is called exactly once when the simple
\* split is rejected (no item, or an item that is too long, holds "or" or a
\* filler word, or ends in an ellipsis-like character) and not at all when
\* it is accepted, whose result is then returned unchanged.
C14_ExtractionIffRejected ==
  ParseEnded =>
    /\ fret.calls = (IF SplitRejected(fret.simple) THEN 1 ELSE 0)
    /\ ~SplitRejected(fret.simple) => (fpc = "returned" /\ fret.titles = fret.simple)

\* A call of splitContent that has returned.
SplitReturned == farg.fn = "splitContent" /\ fpc = "returned"

\* C15: no chunk splitContent collects or returns is longer than maxLength.
C15_ChunkWithinMax ==
  (farg.fn = "splitContent") =>
    /\ \A i \in 1..Len(chunks) : Len(chunks[i]) <= farg.maxLength
    /\ \A i \in 1..Len(fret) : Len(fret[i]) <= farg.maxLength

\* C15 witness: a text without separators was cut twice at exactly
\* maxLength.
C15_Witness ==
  /\ SplitReturned
  /\ Len(fret) = 3
  /\ Len(fret[1]) = farg.maxLength
  /\ Len(fret[2]) = farg.maxLength
  /\ \A i \in 1..Len(farg.content) : farg.content[i] \notin Whitespace

\* Text t is the chunks cs in order, with nothing but whitespace before,
\* between and after them.
RECURSIVE Covers(_, _)
Covers(t, cs) ==
  IF cs = <<>> THEN Blank(t)
  ELSE \E k \in 0..(Len(t) - Len(Head(cs))) :
         /\ Blank(SubSeq(t, 1, k))
         /\ SubSeq(t, k + 1, k + Len(Head(cs))) = Head(cs)
         /\ Covers(SubSeq(t, k + Len(Head(cs)) + 1, Len(t)), Tail(cs))

RECURSIVE Join(_)
Join(cs) == IF cs = <<>> THEN <<>> ELSE Head(cs) \o Join(Tail(cs))
NonWhitespace(t) == SelectSeq(t, LAMBDA c : c \notin Whitespace)

\* C16: the returned chunks, in order, are the text with only whitespace
\* at chunk boundaries left out: no other character is lost, added or
\* moved.
C16_JoinReproducesText ==
  SplitReturned =>
    /\ Covers(farg.content, fret)
    /\ NonWhitespace(Join(fret)) = NonWhitespace(farg.content)

\* C16 witness: a text cut once at a space and once by a hard cut; the
\* space is the one character the chunks lack.
C16_Witness ==
  /\ SplitReturned
  /\ Len(fret) = 3
  /\ Len(cuts) = 2
  /\ cuts[1].rem[cuts[1].idx + 1] = " "
  /\ cuts[2].rem[cuts[2].idx + 1] \notin Whitespace
  /\ Len(Join(fret)) = Len(farg.content) - 1

\* C17: a text no longer than maxLength is returned as the one chunk, not
\* trimmed.
C17_FittingTextReturnedWhole ==
  (SplitReturned /\ Len(farg.content) <= farg.maxLength)
    => fret = <<farg.content>>

\* C17 witness: a fitting text that begins with a space and ends with a
\* line feed was returned as it is.
C17_Witness ==
  /\ SplitReturned
  /\ Len(farg.content) = farg.maxLength
  /\ Len(farg.content) >= 3
  /\ farg.content[1] = " "
  /\ farg.content[Len(farg.content)] = "\n"
  /\ fret = <<farg.content>>

\* C18 (as claimed): every returned chunk other than the last has at least
\* maxLength / 2 characters.
C18_ChunksAtLeastHalf ==
  SplitReturned =>
    \A i \in 1..(Len(fret) - 1) : 2 * Len(fret[i]) >= farg.maxLength

\* C18 (amended): every split point accepted is at least maxLength / 2 and
\* at most maxLength, so every chunk other than the last is cut from a
\* piece of at least maxLength / 2 characters, and is that piece trimmed.
C18_SplitPointAtLeastHalf ==
  (farg.fn = "splitContent") =>
    /\ Len(chunks) >= Len(cuts)
    /\ \A i \in 1..Len(cuts) :
         /\ 2 * cuts[i].idx >= farg.maxLength
         /\ cuts[i].idx <= farg.maxLength
         /\ chunks[i] = Trim(SubSeq(cuts[i].rem, 1, cuts[i].idx))

\* C18 witness: "a  bb" with maxLength 4 is cut at the second space, index
\* 2, and the first chunk is "a".
C18_Witness ==
  /\ SplitReturned
  /\ farg.content = <<"a", " ", " ", "b", "b">>
  /\ farg.maxLength = 4
  /\ cuts[1].idx = 2
  /\ fret = << <<"a">>, <<"b", "b">> >>

\* The indices in [maxLength / 2, maxLength] at which sep starts in r.
InRange(r, sep, maxLength) ==
  {i \in 0..maxLength :
     /\ 2 * i >= maxLength
     /\ i + Len(sep) <= Len(r)
     /\ SubSeq(r, i + 1, i + Len(sep)) = sep}

\* C19: every split point is the last paragraph break in [maxLength / 2,
\* maxLength] if there is one, else the last line break there, else the
\* last space there, else maxLength.
C19_TieBreakOrder ==
  (farg.fn = "splitContent") =>
    \A i \in 1..Len(cuts) :
      LET r == cuts[i].rem
          m == farg.maxLength
          p == InRange(r, ParagraphBreak, m)
          l == InRange(r, LineBreak, m)
          b == InRange(r, Space, m)
      IN cuts[i].idx = IF p # {} THEN Max(p)
                       ELSE IF l # {} THEN Max(l)
                       ELSE IF b # {} THEN Max(b)
                       ELSE m

\* C19 witness: the remainder has a paragraph break at index 2 and a space
\* at index 4, both in range for maxLength 4, and was cut at the paragraph
\* break.
C19_Witness ==
  /\ SplitReturned
  /\ farg.maxLength = 4
  /\ farg.content = <<"a", "b", "\n", "\n", " ", "a">>
  /\ cuts[1].idx = 2
  /\ fret = << <<"a", "b">>, <<"a">> >>

\* C20 (as claimed): when the run is done, every artifact post that failed
\* (non-ok response or thrown error) is the last post of its artifact and,
\* unless it was the last artifact, is followed by the first chunk of the
\* next artifact.
C20_PostFailureSkipsToNextArtifact ==
  (cpc = "done" /\ Returned) =>
    LET A == ArtifactPosts IN
    \A k \in 1..Len(A) :
      (A[k].outcome # "ok") =>
        /\ \A j \in (k + 1)..Len(A) : A[j].item # A[k].item
        /\ (A[k].item < Len(results)) =>
             /\ k < Len(A)
             /\ A[k + 1].item = A[k].item + 1
             /\ A[k + 1].chunk = 1

\* C25: all generation calls of a batch run on one provider, the one that
\* was current when the first call was issued, whatever set commands are
\* served while the batch is in Generating.
C25_OneProviderPerBatch ==
  \A i \in 1..Len(call) :
    /\ call[i].provider = call[1].provider
    /\ call[i].provider \in ProviderNames

\* C25 witness: two calls were issued on gemini, the current provider was
\* then switched to claude, and both calls have completed.
C25_Witness ==
  /\ Len(call) = 2
  /\ call[1].provider = "gemini"
  /\ call[2].provider = "gemini"
  /\ call[1].st = "ok"
  /\ call[2].st = "ok"
  /\ currentProvider = "claude"
  /\ cpc = "join"

\* The posts of one kind, and the last entry of the outbound log.
PostsOfKind(kind) == SelectSeq(posts, LAMBDA p : p.kind = kind)
LastPost == posts[Len(posts)]
ThreadPath == threadId = 1 /\ ix.name # "poll"

\* C21 (as claimed): every run that reached Delivering ends with exactly one
\* acknowledgment message, posted after the last artifact chunk, on the
\* channel path, the thread path and the poll flow alike.
C21_FinalAckOnEveryPath ==
  (cpc = "done" /\ Returned) =>
    /\ Len(PostsOfKind("ack")) = 1
    /\ LastPost.kind = "ack"

\* C21 (amended): a run of processDeferred that delivered to a created
\* thread ends with exactly one message that is not an artifact, posted
\* after its last artifact chunk: the ephemeral acknowledgment, or the error
\* message of the failure boundary when a post threw; the channel path and
\* the poll flow never post an acknowledgment and end on an artifact chunk
\* unless a post threw.
C21_ThreadPathFinalAck ==
  /\ \A k \in DOMAIN posts :
       posts[k].kind = "ack" =>
         /\ ThreadPath
         /\ posts[k].eph
         /\ posts[k].target = "webhook"
         /\ k = Len(posts)
         /\ caught = 0
  /\ (cpc = "done" /\ Returned) =>
       IF ThreadPath
       THEN /\ LastPost.kind = IF caught = 0 THEN "ack" ELSE "error"
            /\ Len(PostsOfKind("ack")) + Len(ErrorMessages) = 1
       ELSE caught = 0 => LastPost.kind = "artifact"

\* C21 witness: a thread run ended with both artifacts posted to the thread
\* and the acknowledgment as its last post.
C21_Witness ==
  /\ cpc = "done"
  /\ ThreadPath
  /\ Len(ArtifactPosts) >= 2
  /\ \A k \in 1..Len(ArtifactPosts) : ArtifactPosts[k].outcome = "ok"
  /\ LastPost.kind = "ack"

\* The requests of the outbound log and the chunk each one carries.
ChunkRequests == {k \in DOMAIN posts : posts[k].kind # "delay"}
ChunkOf(p) == <<p.target, p.kind, p.item, p.chunk>>

\* C22: nothing is retried: title extraction is called at most once, thread
\* creation is requested at most once, the batch is generated at most once
\* with call i made for title i and, once the batch has returned, one call
\* per title, and no chunk is posted twice, whatever failed.
C22_NothingRetried ==
  /\ extractCalls <= 1
  /\ threadAttempts <= 1
  /\ genBatches <= 1
  /\ Len(call) <= Len(titles)
  /\ \A i \in 1..Len(call) : call[i].title = titles[i]
  /\ Returned => Len(call) = Len(titles)
  /\ Cardinality({ChunkOf(posts[k]) : k \in ChunkRequests})
       = Cardinality(ChunkRequests)

\* C22 witness: a run ended in which title extraction was used, thread
\* creation failed, a generation call failed and a chunk post failed.
C22_Witness ==
  /\ cpc = "done"
  /\ extractCalls = 1
  /\ threadAttempts = 1
  /\ threadId = 0
  /\ Len(call) = 2
  /\ \E i \in 1..Len(call) : call[i].st = "err"
  /\ \E k \in 1..Len(ArtifactPosts) : ArtifactPosts[k].outcome = "fail"

\* The commands that require generation, with their required argument
\* present and inside the limits the synchronous phase checks.
WellFormedGeneration(i) ==
  /\ i.itype = "ApplicationCommand"
  /\ i.arg.present
  /\ IF i.ctype = "Message" THEN i.name = "Generate Synopses"
     ELSE \/ i.name \in SingleCommands
          \/ i.name = "synopsis-batch" /\ ~i.arg.blank
          \/ i.name = "poll" /\ ~i.arg.blank /\ i.arg.commas \in MinPoll..MaxBatch
TrivialCommand(i) ==
  /\ i.itype = "ApplicationCommand"
  /\ i.ctype = "ChatInput"
  /\ \/ i.name \in {"ping", "help"}
     \/ i.name = "provider" /\ i.arg.present

\* C23: once handleInteraction has returned, the response is deferred
\* (type 5) for every well-formed command that requires generation, a pong
\* for the platform ping and an immediate message (type 4) for ping, help,
\* provider status and provider set; no generation, extraction or
\* thread-creation call and no post is made before the continuation starts,
\* and no continuation ever starts for a response that is not deferred.
C23_DeferredOrImmediate ==
  /\ resp # NoResponse =>
       /\ WellFormedGeneration(ix) => resp.type = DeferredChannelMessageWithSource
       /\ ix.itype = "Ping" => resp.type = Pong
       /\ TrivialCommand(ix) => resp.type = ChannelMessageWithSource
       /\ resp.type # DeferredChannelMessageWithSource => cpc = "idle"
  /\ cpc = "idle" =>
       /\ call = <<>>
       /\ genBatches = 0
       /\ extractCalls = 0
       /\ threadAttempts = 0
       /\ posts = <<>>

\* C23 witness: the handler has returned the deferred response for a
\* Generate Synopses command and the continuation has not started.
C23_Witness ==
  /\ hpc = "returned"
  /\ http = 200
  /\ ix.name = "Generate Synopses"
  /\ resp.type = DeferredChannelMessageWithSource
  /\ cpc = "idle"
  /\ call = <<>>

\* A batch flow ended on an input error found by the continuation: no title
\* or more than ten.
InputErrorRun ==
  /\ BatchFlow
  /\ cpc = "done"
  /\ caught = 0
  /\ Len(titles) = 0 \/ Len(titles) > MaxBatch

\* C24 (as claimed): every input-error diagnostic is ephemeral, the error
\* response of the synchronous phase and the diagnostic follow-up of the
\* continuation alike, and no generation call follows it.
C24_DiagnosticsEphemeral ==
  /\ (resp.type = ChannelMessageWithSource /\ ~TrivialCommand(ix)) => resp.eph
  /\ InputErrorRun =>
       /\ Len(posts) = 1
       /\ posts[1].kind = "diag"
       /\ posts[1].eph
       /\ call = <<>>

\* The delivery target of the invocation as routing left it.
DeliveryTarget == IF threadId = 1 THEN "thread" ELSE "webhook"

\* C26: the delivery target is decided once, before generation: from the
\* first generation call on no thread is requested and the thread id does
\* not change, and every artifact chunk is posted to the created thread if
\* there is one and to the original channel otherwise.
C26_TargetDecidedOnce ==
  /\ [](\A k \in 1..Len(ArtifactPosts) :
          ArtifactPosts[k].target = DeliveryTarget)
  /\ [][call # <<>> =>
          /\ threadId' = threadId
          /\ threadAttempts' = threadAttempts]_vars

\* C26 witness: the thread was created and chunks of two artifacts, one of
\* them in two chunks, went to it.
C26_Witness ==
  /\ threadId = 1
  /\ threadAttempts = 1
  /\ \E k \in 1..Len(ArtifactPosts) :
       ArtifactPosts[k].item = 2 /\ ArtifactPosts[k].target = "thread"
  /\ \E k \in 1..Len(ArtifactPosts) :
       ArtifactPosts[k].chunk = 2 /\ ArtifactPosts[k].target = "thread"

\* C27: an artifact chunk post is followed in the outbound log either by
\* the closing message of the run, after which nothing is posted, or by an
\* awaited delay that is not zero and then by the next artifact chunk post:
\* the chunk delay inside an artifact, the artifact delay between the last
\* post of an artifact and the first post of the next, on the channel path
\* and the thread path, also when the earlier post failed.  So a delay is
\* awaited between any two successive artifact chunk posts.
C27_DelayBetweenPosts ==
  \A k \in DOMAIN posts :
    (posts[k].kind = "artifact" /\ k < Len(posts)) =>
      IF posts[k + 1].kind = "delay"
      THEN /\ posts[k + 1].item > 0
           /\ (k + 2 \in DOMAIN posts) =>
                /\ posts[k + 2].kind = "artifact"
                /\ posts[k + 1].item =
                     IF posts[k + 2].item = posts[k].item
                     THEN ChunkDelay ELSE ArtifactDelay
      ELSE /\ posts[k + 1].kind # "artifact"
           /\ k + 1 = Len(posts)

\* C27 witness: on the thread path the first chunk post of artifact 1
\* failed, the artifact delay was awaited and artifact 2 was posted.
C27_Witness ==
  /\ threadId = 1
  /\ \E k \in DOMAIN posts :
       /\ posts[k].kind = "artifact"
       /\ posts[k].item = 1
       /\ posts[k].chunk = 1
       /\ posts[k].outcome = "fail"
       /\ k + 2 \in DOMAIN posts
       /\ posts[k + 1] = Delay(ArtifactDelay)
       /\ posts[k + 2].kind = "artifact"
       /\ posts[k + 2].item = 2

\* A message reporting a failure is posted after entry k of the outbound log.
ReportedAfter(k) ==
  \E l \in DOMAIN posts : l > k /\ posts[l].kind \in {"error", "diag"}

\* The failures that are reported when the run has ended: a caught
\* exception by the error follow-up, a failed thread creation by the inline
\* notice, a failed generation call by its error-marked artifact.
OtherFailuresReported ==
  /\ caught > 0 => PostsOfKind("error") # <<>>
  /\ (ThreadFallback /\ ix.name # "poll") => NoticePosts # <<>>
  /\ (Returned /\ caught = 0) =>
       \A i \in 1..Len(call) :
         call[i].st = "err" =>
           \E k \in 1..Len(ArtifactPosts) :
             ArtifactPosts[k].title = titles[i] /\ ArtifactPosts[k].error

\* C28 (as claimed): no failure is silent: when the run has ended every
\* failure has a message reporting or marking it; in particular a chunk post
\* answered with a non-success response, which drops the rest of its
\* artifact, is followed by a message about it.
C28_NoSilentFailure ==
  cpc = "done" =>
    /\ OtherFailuresReported
    /\ \A k \in DOMAIN posts :
         (posts[k].kind = "artifact" /\ posts[k].outcome = "fail")
           => ReportedAfter(k)

\* C29 (as claimed): whenever getMessageCommandContent resolves a content
\* from the target message of a Generate Synopses command, a poll message
\* without text content included, the synchronous phase answers with the
\* deferred acknowledgment.
C29_PhaseOneAcceptsResolvable ==
  (/\ resp # NoResponse
   /\ ix.itype = "ApplicationCommand"
   /\ ix.ctype = "Message"
   /\ ix.name = "Generate Synopses"
   /\ getMessageCommandContent(ix).present)
    => resp.type = DeferredChannelMessageWithSource

\* The poll flow created its poll and the thread request was answered with a
\* non-success response.
PollWithoutThread ==
  /\ ix.name = "poll"
  /\ threadAttempts = 1
  /\ threadId = 0
  /\ caught = 0
  /\ cpc \notin {"poll_catch", "catch"}

\* C30: in the poll flow, when the poll was created and the thread request
\* failed with a non-success response, no generation call is ever issued and
\* no artifact posted, and the run ends having sent, after the poll, exactly
\* one message: the ephemeral confirmation that the poll has no thread.
C30_PollThreadFailureEnds ==
  PollWithoutThread =>
    /\ call = <<>>
    /\ genBatches = 0
    /\ ArtifactPosts = <<>>
    /\ cpc \in {"followup", "done"}
    /\ posts[1].kind = "poll"
    /\ posts[1].outcome = "ok"
    /\ cpc = "followup" => (Len(posts) = 1 /\ fu = FollowUp("nothread", TRUE, "done"))
    /\ cpc = "done" =>
         /\ Len(posts) = 2
         /\ posts[2].kind = "nothread"
         /\ posts[2].eph
         /\ posts[2].target = "webhook"

\* C30 witness: a poll run ended with the poll and the confirmation posted
\* after its thread request failed.
C30_Witness ==
  /\ PollWithoutThread
  /\ cpc = "done"
  /\ Len(posts) = 2
  /\ posts[2].kind = "nothread"
  /\ posts[2].outcome = "ok"

\* The poll command was followed through both phases on a books option.
PollReturned == farg.fn = "poll" /\ fpc = "returned"
PollAccepted == fret.response.type = DeferredChannelMessageWithSource

\* The number of comma-separated titles of a books option that are not blank.
CommaTitles(t) ==
  Cardinality({c \in PieceStarts(t, ",") : ~Blank(PieceAt(t, ",", c))})

\* The continuation evaluates the bound check before its first outbound call.
RecheckedFirst == fret.steps[1] = "bound"

\* C31 as stated: the synchronous phase defers the poll command exactly
\* when the books option holds 2 to 10 comma-separated non-empty titles and
\* answers every other input with an ephemeral error; the continuation
\* re-checks the same bound before any outbound call, and its check passes
\* exactly for the inputs the synchronous phase deferred.  Fails on a
\* deferred command: without a bot token the continuation sends a diagnostic
\* and returns, the bound never checked.
C31_RecheckBeforeAnyCall ==
  PollReturned =>
    /\ PollAccepted <=> CommaTitles(farg.books) \in MinPoll..MaxBatch
    /\ ~PollAccepted => fret.response = errorResponse
    /\ PollAccepted => RecheckedFirst
    /\ PollAccepted <=> fret.bound = "pass"

\* C31: the synchronous phase defers the poll command exactly when the
\* books option holds 2 to 10 comma-separated non-empty titles and answers
\* every other input with an ephemeral error.  The continuation of a
\* function that has its bot token re-checks the same bound before any
\* outbound call, its check passes exactly for the inputs the synchronous
\* phase deferred, on 2 to 10 trimmed non-empty titles, and it requests the
\* poll only after a passed check.  Without a bot token its one outbound
\* call is the diagnostic follow-up and no poll is requested.
C31_PollBoundsAgree ==
  PollReturned =>
    /\ PollAccepted <=> CommaTitles(farg.books) \in MinPoll..MaxBatch
    /\ ~PollAccepted => fret.response = errorResponse
    /\ farg.botToken =>
         /\ RecheckedFirst
         /\ PollAccepted <=> fret.bound = "pass"
         /\ PollAccepted <=> Len(fret.titles) \in MinPoll..MaxBatch
         /\ \A i \in 1..Len(fret.titles) :
              /\ fret.titles[i] # <<>>
              /\ fret.titles[i] = Trim(fret.titles[i])
    /\ ~farg.botToken => fret.steps = <<"followup: token">>
    /\ fret.next = "poll_create" =>
         /\ fret.bound = "pass"
         /\ fret.steps = <<"bound", "poll request">>

\* C31 witness: a padded list of ten titles was deferred and the
\* continuation, with its bot token, re-checked the bound and goes on to
\* the poll request.
C31_Witness ==
  /\ PollReturned
  /\ farg.botToken
  /\ Len(fret.titles) = MaxBatch
  /\ farg.books[1] = " "
  /\ PollAccepted
  /\ fret.steps = <<"bound", "poll request">>

\* The provider set command with a name option.
ProviderSet(i) ==
  /\ i.itype = "ApplicationCommand"
  /\ i.ctype = "ChatInput"
  /\ i.name = "provider"
  /\ i.arg.present
  /\ i.arg.sub = "set"
  /\ i.arg.name # "none"

\* C32: the step of the handler that serves a provider set command leaves
\* the registered providers as they are; for a name that is not registered
\* the current provider stays and the response is the ephemeral error, for a
\* registered name the current provider becomes that name and the response
\* is an ephemeral message that is not an error.
C32_SetProviderFrame ==
  [][(hpc = "received" /\ resp' # NoResponse /\ ProviderSet(ix)) =>
       /\ providers' = providers
       /\ IF Registered(ix.arg.name)
          THEN /\ currentProvider' = ix.arg.name
               /\ resp' = ephemeralResponse
          ELSE /\ currentProvider' = currentProvider
               /\ resp' = errorResponse]_vars

\* C32 witness: set claude was served by a manager that has gemini only and
\* gemini current: the error was returned and gemini is still current.
C32_Witness ==
  /\ hpc = "returned"
  /\ ProviderSet(ix)
  /\ ix.arg.name = "claude"
  /\ providers = {"gemini"}
  /\ currentProvider = "gemini"
  /\ resp = errorResponse

\* C33 (as claimed): the current provider is always a registered provider.
C33_CurrentProviderConfigured == Registered(currentProvider)

\* C34: every iteration of the splitContent loop that does not end the loop
\* leaves a remainder that is strictly shorter, for every text and every
\* maxLength of at least 1, so the loop ends.
C34_RemainderDecreases ==
  [][(fpc = "loop" /\ fpc' = "loop") => Len(remaining') < Len(remaining)]_vars

\* C34 witness: with maxLength 1 the loop has cut twice and the remainder
\* still does not fit.
C34_Witness ==
  /\ fpc = "loop"
  /\ farg.maxLength = 1
  /\ Len(cuts) = 2
  /\ Len(remaining) > 1

\* C35 (as claimed): for a text with at least one character that is not
\* whitespace, no chunk returned by splitContent is empty.
C35_NoEmptyChunk ==
  (SplitReturned /\ NonWhitespace(farg.content) # <<>>) =>
    \A i \in 1..Len(fret) : fret[i] # <<>>

\* C36 (as claimed): every title parseTitles returns from the simple split
\* is a trimmed text that is not empty, for every input, the empty and the
\* whitespace-only ones included.
C36_SimpleTitlesNonEmpty ==
  (ParseEnded /\ fret.by = "simple") =>
    \A i \in 1..Len(fret.titles) :
      /\ fret.titles[i] # <<>>
      /\ fret.titles[i] = Trim(fret.titles[i])

\* C37: a run never posts both the acknowledgment and the catch-all error
\* message; the acknowledgment is posted only when nothing was caught and no
\* earlier request of the run threw, and the catch-all error message is the
\* last message of its run: after a request of it only delays and requests
\* of it are logged.
C37_AckOrErrorNotBoth ==
  /\ ~(PostsOfKind("ack") # <<>> /\ PostsOfKind("error") # <<>>)
  /\ \A k \in DOMAIN posts :
       /\ posts[k].kind = "ack" =>
            /\ caught = 0
            /\ \A l \in 1..(k - 1) : posts[l].outcome # "throw"
       /\ (posts[k].kind = "error" /\ k < Len(posts)) =>
            posts[k + 1].kind \in {"delay", "error"}
       /\ (posts[k].kind = "delay" /\ k > 1 /\ k < Len(posts)
             /\ posts[k - 1].kind = "error") => posts[k + 1].kind = "error"

\* C37 witness: a thread run ended on the catch-all error message after a
\* post of its second artifact threw; no acknowledgment was posted.
C37_Witness ==
  /\ cpc = "done"
  /\ ThreadPath
  /\ caught = 1
  /\ LastPost.kind = "error"
  /\ PostsOfKind("ack") = <<>>
  /\ \E k \in DOMAIN posts :
       /\ posts[k].kind = "artifact"
       /\ posts[k].item = 2
       /\ posts[k].outcome = "throw"

\* C38: one command queues at most one deferred_processing event, so the
\* handler runs at most twice for it; the event is handled by one run of
\* processDeferred, which starts only from a queued event, never starts
\* again, queues no event and returns no response.
C38_ContinuationRunsOnce ==
  /\ [](dispatched <= 1)
  /\ [](cpc # "idle" => dispatched = 1)
  /\ [][cpc # "idle" => cpc' # "idle"]_vars
  /\ [][cpc' # cpc =>
          /\ dispatched' = dispatched
          /\ resp' = resp
          /\ http' = http]_vars

\* C38 witness: the handler queued the event and returned, and the run of
\* processDeferred it started has ended after delivering an artifact.
C38_Witness ==
  /\ dispatched = 1
  /\ hpc = "returned"
  /\ http = 200
  /\ cpc = "done"
  /\ ArtifactPosts # <<>>

\* The handler has called handleInteraction, queued an event, or the
\* continuation has started or posted.
InteractionHandled ==
  \/ resp # NoResponse
  \/ dispatched > 0
  \/ cpc # "idle"
  \/ posts # <<>>

\* C39: the interaction is handled only with the public key set and a valid
\* signature; with the public key unset the handler returns 500, and with
\* the key set and the signature or the timestamp missing or the signature
\* invalid it returns 401.
C39_VerifiedBeforeHandling ==
  /\ InteractionHandled => (cfg.publicKey /\ cfg.signature = "valid")
  /\ (hpc = "returned" /\ ~cfg.publicKey) => http = 500
  /\ (hpc = "returned" /\ cfg.publicKey /\ cfg.signature # "valid") => http = 401
  /\ (hpc # "returned" /\ hpc # "received") => (cfg.publicKey /\ cfg.signature = "valid")

\* C39 witness: a well-formed generation command with an invalid signature
\* was answered 401 and nothing else happened.
C39_Witness ==
  /\ hpc = "returned"
  /\ http = 401
  /\ cfg.signature = "invalid"
  /\ cfg.functionName
  /\ WellFormedGeneration(ix)
  /\ ~InteractionHandled

====
